---- MODULE Spec2Model ----
(***************************************************************************)
(* A model of the command-dispatch and delivery-reliability layer of the   *)
(* WhatsApp gateway: the delivery engine (sendMessageWithRetry), the       *)
(* conversation memory (MemoryStore) with its write-through persistence,   *)
(* the command dispatch of EventHandler                                    *)
(* and its command handlers, the target resolver (createTargetJID /        *)
(* normalizePhoneNumber), the HTTP handlers (/send-message, bulk send,     *)
(* GitHub webhook) and the webhook message formatting.                     *)
(*                                                                         *)
(* Go strings whose characters matter (message bodies, raw targets) are    *)
(* sequences of one-character strings; strings that are only concatenated  *)
(* and compared (chat ids, persona names) are TLA+ strings.                *)
(***************************************************************************)
EXTENDS Integers, Sequences, FiniteSets, TLC

VARIABLES
    \* ---- sendMessageWithRetry (one invocation) ----
    maxRetries,   \* the maxRetries argument
    i,            \* the loop variable i
    err,          \* the local variable err
    rpc,          \* position in the call: "loop", "sleep", "done"
    ret,          \* the returned error once rpc = "done"
    trace,        \* what the call did so far: transport sends and sleeps, in order
    \* ---- MemoryStore ----
    Data,         \* s.Data: the history of every key (no entry = empty history)
    now,          \* the reading of time.Now().Unix()
    log,          \* per key, every entry ever appended to it, in the order stored
    op,           \* the store operation that ran last, with its arguments
    got,          \* the slice the last GetHistory returned
    shared,       \* the part of s.Data whose backing array that slice shares
    \* ---- flows calling MemoryStore.Append concurrently ----
    mu,           \* s.mu: the flow holding the write lock, or "free"
    mpc,          \* per flow, its position inside Append
    cur,          \* per flow, the arguments of its Append call in progress
    tmp,          \* per flow, the slice append(s.Data[key], msg) it computed
    issued,       \* per flow, the keys of the Append calls it made, in call order
    \* ---- flows calling MemoryStore.AppendAndSave concurrently ----
    readers,      \* s.mu: the flows holding the read lock
    spc,          \* per flow, its position inside Save
    snap,         \* per flow, the bytes b its Save marshalled
    file,         \* the content of the file s.FilePath
    \* ---- EventHandler (one inbound message event) ----
    message,      \* the text getMessageText extracted from the event
    handler,      \* the command handler EventHandler called, "none" if none
    evpc,         \* "received" before EventHandler ran, "handled" after
    \* ---- createTargetJID (one call) ----
    target,       \* the target argument
    jid,          \* the JID returned
    tpc,          \* "call" before createTargetJID ran, "done" after
    \* ---- the transport (WaClient) as the handlers see it ----
    connected,    \* what WaClient.IsConnected() reports
    effects,      \* what the handler in progress did so far, in order:
                  \* transport sends, uploads and generation calls
    \* ---- a command handler called by EventHandler ----
    chat,         \* v.Info.Chat.String() of the event
    NO_RESPONSE,  \* the environment variable NO_RESPONSE, split at ";"
    hpc,          \* position inside the command handler
    \* ---- an HTTP request (send-message, bulk send, github-webhook) ----
    request,      \* the request: endpoint, decoded body, header, query
    API_SECRET,   \* the environment variable API_SECRET
    NOTIFICATION_TARGETS, \* the environment variable NOTIFICATION_TARGETS
    targets,      \* the local variable targets of the fan-out loop
    tidx,         \* the next index of the fan-out loop (from 1)
    results,      \* the local variable results
    successCount, \* the local variable successCount
    response,     \* the response written, NoResponse before
    wpc,          \* position inside the HTTP handler
    \* ---- formatGitHubMessage (one call) ----
    eventType,    \* the eventType argument
    payload,      \* the payload argument
    formatted,    \* what the call returned, or that it panicked
    fpc           \* "call" before formatGitHubMessage ran, "done" after

retryVars == <<maxRetries, i, err, rpc, ret, trace>>
memVars == <<Data, now, log, op, got, shared>>
persistVars == <<readers, spc, snap, file>>
flowVars == <<mu, mpc, cur, tmp, issued, persistVars>>
eventVars == <<message, handler, evpc>>
targetVars == <<target, jid, tpc>>
transportVars == <<connected, effects>>
cmdVars == <<chat, NO_RESPONSE, hpc>>
httpVars == <<request, API_SECRET, NOTIFICATION_TARGETS, targets, tidx, results,
              successCount, response, wpc>>
formatVars == <<eventType, payload, formatted, fpc>>

vars == <<retryVars, memVars, flowVars, eventVars, targetVars,
          transportVars, cmdVars, httpVars, formatVars>>

(***************************************************************************)
(* Delivery engine: sendMessageWithRetry                                   *)
(***************************************************************************)

\* Bounds on the maxRetries argument the calls are checked with.  The callers
\* of the repository pass 2 or 3; 0 and negative values are included.
MinRetries == 0 - 1
MaxRetriesArg == 4

\* An error value: the text of the error and the attempt count it carries.
\* The errors of the transport carry no attempt count (attempts = 0).
NilErr == [msg |-> "nil", attempts |-> 0]
TransportErrors == {[msg |-> "timeout", attempts |-> 0],
                    [msg |-> "not connected", attempts |-> 0]}

\* The outcomes of one WaClient.SendMessage call.
SendOutcomes == {NilErr} \cup TransportErrors

SendEvent(e) == [op |-> "send", err |-> e, secs |-> 0]
SleepEvent(s) == [op |-> "sleep", err |-> NilErr, secs |-> s]

\* for i := 0; i < maxRetries; i++
LoopCond_Inclusive(idx, m) == idx <= m
LoopCond(idx, m) == idx < m

\* if i < maxRetries-1 { time.Sleep(...) }
BackoffCond(idx, m) == idx < m - 1

\* time.Sleep(time.Duration(i+1) * time.Second), in seconds
BackoffSecs_Const(idx) == 1
BackoffSecs(idx) == idx + 1

\* _, err = WaClient.SendMessage(...): err is overwritten by every attempt
AssignErr_KeepFirst(old, new) == IF old = NilErr THEN new ELSE old
AssignErr(old, new) == new

RetryStart ==
    /\ maxRetries \in MinRetries..MaxRetriesArg
    /\ i = 0
    /\ err = NilErr
    /\ rpc = "loop"
    /\ ret = NilErr
    /\ trace = <<>>

\* no call of sendMessageWithRetry in progress
RetryIdle ==
    /\ maxRetries = 0
    /\ i = 0
    /\ err = NilErr
    /\ rpc = "done"
    /\ ret = NilErr
    /\ trace = <<>>

\* One pass through the loop body up to the sleep: the transport call, the
\* return on success, and the choice between backing off and the next pass.
SendAttempt ==
    /\ rpc = "loop"
    /\ LoopCond(i, maxRetries)
    /\ \E outcome \in SendOutcomes :
         LET e == AssignErr(err, outcome) IN
         /\ err' = e
         /\ trace' = Append(trace, SendEvent(outcome))
         /\ IF e = NilErr
              THEN /\ rpc' = "done"
                   /\ ret' = NilErr
                   /\ i' = i
              ELSE /\ ret' = ret
                   /\ IF BackoffCond(i, maxRetries)
                        THEN rpc' = "sleep" /\ i' = i
                        ELSE rpc' = "loop" /\ i' = i + 1
    /\ UNCHANGED <<maxRetries, memVars, flowVars, eventVars, targetVars,
                 transportVars, cmdVars, httpVars, formatVars>>

\* time.Sleep(time.Duration(i+1) * time.Second), then i++
Backoff ==
    /\ rpc = "sleep"
    /\ trace' = Append(trace, SleepEvent(BackoffSecs(i)))
    /\ i' = i + 1
    /\ rpc' = "loop"
    /\ UNCHANGED <<maxRetries, err, ret, memVars, flowVars, eventVars, targetVars,
                 transportVars, cmdVars, httpVars, formatVars>>

\* The loop condition fails: return err
ReturnErr ==
    /\ rpc = "loop"
    /\ ~LoopCond(i, maxRetries)
    /\ ret' = err
    /\ rpc' = "done"
    /\ UNCHANGED <<maxRetries, i, err, trace, memVars, flowVars, eventVars, targetVars,
                 transportVars, cmdVars, httpVars, formatVars>>

\* ---- what a call did, read off its trace ----
Sends == SelectSeq(trace, LAMBDA ev : ev.op = "send")
Sleeps == SelectSeq(trace, LAMBDA ev : ev.op = "sleep")
NumSends == Len(Sends)
FailedFirst(n) == \A k \in 1..(n - 1) : Sends[k].err # NilErr

\* C1: for every maxRetries >= 1 and every n in 1..maxRetries, once the
\* transport has failed the first n-1 send calls and succeeded on the n-th,
\* the call has returned success after exactly n send calls, it slept k
\* seconds after the k-th failed attempt (1, 2, ..., n-1) and nothing else,
\* and no send call follows the successful one.
C1_SucceedsOnNthAttempt ==
    \A n \in 1..maxRetries :
        (NumSends >= n /\ FailedFirst(n) /\ Sends[n].err = NilErr)
            => /\ rpc = "done"
               /\ ret = NilErr
               /\ NumSends = n
               /\ Len(trace) = 2 * n - 1
               /\ \A k \in 1..n : trace[2 * k - 1].op = "send"
               /\ \A k \in 1..(n - 1) : trace[2 * k] = SleepEvent(k)

\* a call that succeeded on its third attempt, after two backoffs
C1_Witness ==
    /\ rpc = "done"
    /\ ret = NilErr
    /\ NumSends = 3
    /\ Len(Sleeps) = 2

\* C2: for every maxRetries >= 1 a call never makes more than maxRetries
\* send calls, and when every send call has failed and the call has returned,
\* it returned a failure after exactly maxRetries send calls, with
\* maxRetries-1 sleeps, the last thing it did being the last failed send.
C2_ExhaustsAfterMaxAttempts ==
    maxRetries >= 1 =>
        /\ NumSends <= maxRetries
        /\ (rpc = "done" /\ FailedFirst(NumSends + 1))
             => /\ ret # NilErr
                /\ NumSends = maxRetries
                /\ Len(Sleeps) = maxRetries - 1
                /\ trace[Len(trace)].op = "send"

\* a call with three attempts allowed that failed three times and returned
C2_Witness ==
    /\ rpc = "done"
    /\ maxRetries = 3
    /\ NumSends = 3
    /\ FailedFirst(4)

C28_NilOnlyAfterSuccessfulSend ==
    (rpc = "done" /\ ret = NilErr) =>
        \E k \in 1..NumSends : Sends[k].err = NilErr

(***************************************************************************)
(* Conversation memory: MemoryStore                                        *)
(***************************************************************************)

\* MaxPerChat: 50, set by InitMemory
MaxPerChat == 50

\* Chat ids and persona names the store is used with.  The ask handlers pass
\* the chat JID and the persona names "Fiq" and "!apik".
Chats == {"628111@s.whatsapp.net", "120363@g.us"}
Personas == {"Fiq", "!apik"}
Roles == {"user", "assistant"}

\* func (s *MemoryStore) key(chatJID, assistantName string) string
key_ChatOnly(chatJID, assistantName) == chatJID
key(chatJID, assistantName) == chatJID \o "|" \o assistantName

Keys == {key(c, a) : c \in Chats, a \in Personas}

\* MemoryMessage{Role: role, Text: text, Timestamp: time.Now().Unix()}
MemoryMessage(role, text, ts) == [Role |-> role, Text |-> text, Timestamp |-> ts]

\* h[len(h)-n:] for 0 <= n <= len(h)
LastN(h, n) == SubSeq(h, Len(h) - n + 1, Len(h))

\* if s.MaxPerChat > 0 && len(h) > s.MaxPerChat { h = h[over:] }
TrimHistory_KeepOldest(h) ==
    IF MaxPerChat > 0 /\ Len(h) > MaxPerChat
        THEN SubSeq(h, 1, MaxPerChat)
        ELSE h
TrimHistory(h) ==
    IF MaxPerChat > 0 /\ Len(h) > MaxPerChat
        THEN LET over == Len(h) - MaxPerChat IN SubSeq(h, over + 1, Len(h))
        ELSE h

\* The slice GetHistory returns for the history h and the limit argument:
\* a copy of h when limit <= 0 or len(h) <= limit, else of h[len(h)-limit:].
HistoryView_Oldest(h, limit) ==
    IF limit <= 0 \/ Len(h) <= limit THEN h ELSE SubSeq(h, 1, limit)
HistoryView(h, limit) ==
    IF limit <= 0 \/ Len(h) <= limit THEN h ELSE LastN(h, limit)

\* The backing array of the slice GetHistory returns for the history h of key
\* k: append([]MemoryMessage(nil), ...) copies the elements into an array of
\* its own, so the slice shares no memory with s.Data.
NotShared == [key |-> "", from |-> 0]
SharesArray_Subslice(k, h, limit) ==
    IF h = <<>> THEN NotShared
    ELSE [key |-> k, from |-> Len(h) - Len(HistoryView(h, limit))]
SharesArray(k, h, limit) == NotShared

\* ---- bounds of the memory model ----
\* number of Append calls made after start-up
MaxAppends == 2
\* largest limit argument of GetHistory; the smallest is -1
MaxLimit == 3
\* the clock readings are 0..MaxTime
MaxTime == 1
Limits == (0 - 1)..MaxLimit

\* The file InitMemory loads was saved by an earlier run of the program: its
\* histories are what that run appended.  Entry j of such a history:
SavedEntry(j) ==
    MemoryMessage(IF j % 2 = 1 THEN "user" ELSE "assistant", <<"saved", j>>, 0)
SavedHistory(n) == [j \in 1..n |-> SavedEntry(j)]
EmptyStore == [k \in Keys |-> <<>>]
\* no file, or a file in which the history of one conversation is just below
\* or at the cap
SavedKey == key("120363@g.us", "Fiq")
LoadedStores ==
    {EmptyStore} \cup
    {[EmptyStore EXCEPT ![SavedKey] = SavedHistory(n)] :
        n \in {MaxPerChat - 1, MaxPerChat}}

NoOp == [name |-> "none", chat |-> "", persona |-> "", limit |-> 0,
         msg |-> MemoryMessage("", <<>>, 0)]

\* InitMemory
MemStart ==
    /\ Data \in LoadedStores
    /\ log = Data
    /\ now = 0
    /\ op = NoOp
    /\ got = <<>>
    /\ shared = NotShared

\* the store as it is left alone by the specifications of other components
MemIdle ==
    /\ Data = EmptyStore
    /\ log = EmptyStore
    /\ now = 0
    /\ op = NoOp
    /\ got = <<>>
    /\ shared = NotShared

RECURSIVE SumLen(_, _)
SumLen(fn, S) ==
    IF S = {} THEN 0
    ELSE LET x == CHOOSE y \in S : TRUE IN Len(fn[x]) + SumLen(fn, S \ {x})

\* number of Append calls since start-up
NewEntries == [k \in Keys |-> SelectSeq(log[k], LAMBDA m : m.Text[1] = "new")]
TotalAppended == SumLen(NewEntries, Keys)

\* time passes
Tick ==
    /\ now < MaxTime
    /\ now' = now + 1
    /\ UNCHANGED <<Data, log, op, got, shared, retryVars, flowVars, eventVars, targetVars,
                 transportVars, cmdVars, httpVars, formatVars>>

\* func (s *MemoryStore) Append(chatJID, assistantName, role, text string),
\* run to completion under s.mu.Lock()
AppendEffect(chatJID, assistantName, role, text) ==
    LET k == key(chatJID, assistantName)
        msg == MemoryMessage(role, text, now)
    IN /\ Data' = [Data EXCEPT ![k] = TrimHistory(Append(Data[k], msg))]
       /\ log' = [log EXCEPT ![k] = Append(log[k], msg)]
       /\ op' = [NoOp EXCEPT !.name = "Append", !.chat = chatJID,
                             !.persona = assistantName, !.msg = msg]
MemAppend(chatJID, assistantName, role, text) ==
    /\ AppendEffect(chatJID, assistantName, role, text)
    /\ UNCHANGED <<now, got, shared, retryVars, flowVars, targetVars>>

\* func (s *MemoryStore) GetHistory(chatJID, assistantName string, limit int),
\* run to completion under s.mu.RLock()
GetHistory(chatJID, assistantName, limit) ==
    LET k == key(chatJID, assistantName)
    IN /\ got' = HistoryView(Data[k], limit)
       /\ shared' = SharesArray(k, Data[k], limit)
       /\ op' = [NoOp EXCEPT !.name = "GetHistory", !.chat = chatJID,
                             !.persona = assistantName, !.limit = limit]
       /\ UNCHANGED <<Data, log, now, retryVars, flowVars, targetVars>>

\* The next Append call; the text is new with every call.  As in
\* GetGeminiResponseWithMemory, the only caller, "user" and "assistant"
\* entries alternate.
NextRole == IF TotalAppended % 2 = 0 THEN "user" ELSE "assistant"
AppendCall ==
    /\ TotalAppended < MaxAppends
    /\ \E c \in Chats, a \in Personas :
         MemAppend(c, a, NextRole, <<"new", TotalAppended + 1>>)
    /\ UNCHANGED <<eventVars, transportVars, cmdVars, httpVars, formatVars>>

GetHistoryCall ==
    /\ \E c \in Chats, a \in Personas, l \in Limits : GetHistory(c, a, l)
    /\ UNCHANGED <<eventVars, transportVars, cmdVars, httpVars, formatVars>>

\* The caller of GetHistory overwrites an element of the slice it got (the
\* first or the last one); an element of s.Data changes with it where the
\* two share their backing array.
Scribble == MemoryMessage("assistant", <<"scribbled", 0>>, 0)
MutateGot ==
    /\ op.name = "GetHistory"
    /\ \E j \in {1, Len(got)} \cap DOMAIN got :
         /\ got[j] # Scribble
         /\ got' = [got EXCEPT ![j] = Scribble]
         /\ Data' = IF shared = NotShared THEN Data
                    ELSE [Data EXCEPT ![shared.key][shared.from + j] = Scribble]
    /\ UNCHANGED <<log, now, op, shared, retryVars, flowVars, targetVars,
                   eventVars, transportVars, cmdVars, httpVars, formatVars>>

Min(a, b) == IF a <= b THEN a ELSE b
Max(a, b) == IF a >= b THEN a ELSE b

\* the key the last store operation was called with
OpKey == key(op.chat, op.persona)

\* C4: right after Append(key, e), GetHistory(key, N) with N >= 1 returns a
\* sequence whose last element is e; no stored history is longer than the cap
\* after any append; and of the entries ever appended to a key exactly the
\* cap most recent ones remain, in the order appended (after cap+k appends
\* the k oldest are gone).
C4_AppendKeepsNewestWithinCap ==
    /\ \A k \in Keys :
         /\ Len(Data[k]) <= MaxPerChat
         /\ Data[k] = LastN(log[k], Min(Len(log[k]), MaxPerChat))
    /\ op.name = "Append" =>
         \A N \in 1..MaxLimit :
            LET v == HistoryView(Data[OpKey], N)
            IN Len(v) >= 1 /\ v[Len(v)] = op.msg

\* an append that evicted: cap+2 entries were appended to the key so far
C4_Witness ==
    /\ op.name = "Append"
    /\ Len(log[OpKey]) = MaxPerChat + 2
    /\ Len(Data[OpKey]) = MaxPerChat

C7_PersonasIndependent ==
    [][\A c \in Chats, a \in Personas, b \in Personas :
         (a # b /\ log' # log /\ op'.name = "Append" /\ op'.chat = c /\ op'.persona = a)
            => \A l \in Limits :
                 HistoryView(Data'[key(c, b)], l) = HistoryView(Data[key(c, b)], l)
      ]_vars

\* an append to one persona of a chat whose other persona has a history too
C7_Witness ==
    /\ op.name = "Append"
    /\ \E b \in Personas \ {op.persona} : Len(Data[key(op.chat, b)]) > 0

\* C22: GetHistory never changes the store: across a GetHistory call the
\* content and order of every key's history are what they were, and what is
\* retained is decided by the appends alone (the newest MaxPerChat entries
\* appended); the slice returned is a copy: a caller overwriting its
\* elements changes no stored history, so a later GetHistory returns what it
\* would have returned without the overwrite.
C22_GetHistoryReadOnlyCopy ==
    /\ [][op'.name = "GetHistory" => Data' = Data /\ log' = log]_vars
    /\ [](\A k \in Keys : Data[k] = LastN(log[k], Min(Len(log[k]), MaxPerChat)))

\* the caller overwrote the last element of the slice GetHistory returned
\* for a key with a stored history
C22_Witness ==
    /\ op.name = "GetHistory"
    /\ Len(got) >= 2
    /\ got[Len(got)] = Scribble
    /\ Len(Data[OpKey]) >= Len(got)
    /\ Data[OpKey][Len(Data[OpKey])] # Scribble

(***************************************************************************)
(* Concurrent flows calling MemoryStore.Append                             *)
(***************************************************************************)

\* the dispatch and request flows that call Append
Flows == {"f1", "f2"}
\* number of Append calls the flows make in total
MaxFlowCalls == 2

NoCall == [chat |-> "", persona |-> "", role |-> "", text |-> <<>>,
           msg |-> MemoryMessage("", <<>>, 0)]

\* json.MarshalIndent(s.Data, "", "  "): the keys that have a history, in
\* sorted order, each with its entries; and json.Unmarshal(b, &store.Data)
SortedKeys ==
    <<key("120363@g.us", "!apik"), key("120363@g.us", "Fiq"),
      key("628111@s.whatsapp.net", "!apik"), key("628111@s.whatsapp.net", "Fiq")>>
Marshal(d) ==
    LET present == SelectSeq(SortedKeys, LAMBDA k : d[k] # <<>>)
    IN [j \in 1..Len(present) |-> [key |-> present[j], history |-> d[present[j]]]]
Unmarshal(b) ==
    [k \in Keys |->
        IF \E j \in 1..Len(b) : b[j].key = k
            THEN b[CHOOSE j \in 1..Len(b) : b[j].key = k].history
            ELSE <<>>]

\* no Save in progress; the file is the one InitMemory loaded
PersistIdle ==
    /\ readers = {}
    /\ spc = [f \in Flows |-> "idle"]
    /\ snap = [f \in Flows |-> <<>>]
    /\ file = Marshal(Data)

FlowIdle ==
    /\ mu = "free"
    /\ mpc = [f \in Flows |-> "idle"]
    /\ cur = [f \in Flows |-> NoCall]
    /\ tmp = [f \in Flows |-> <<>>]
    /\ issued = [f \in Flows |-> <<>>]
    /\ PersistIdle

\* s.mu.Lock() goes through only while no flow holds the lock
CanLock_NoMutex(m) == TRUE
CanLock(m) == m = "free"

FlowKey(f) == key(cur[f].chat, cur[f].persona)

\* flow f calls Append(chatJID, assistantName, role, text); its text is new
AppendEnter(f) ==
    /\ mpc[f] = "idle"
    /\ SumLen(issued, Flows) < MaxFlowCalls
    /\ \E c \in Chats, a \in Personas, r \in Roles :
         /\ cur' = [cur EXCEPT ![f] = [NoCall EXCEPT !.chat = c, !.persona = a, !.role = r,
                                                !.text = <<f, Len(issued[f]) + 1>>]]
         /\ issued' = [issued EXCEPT ![f] = Append(issued[f], key(c, a))]
    /\ mpc' = [mpc EXCEPT ![f] = "lock"]
    /\ UNCHANGED <<mu, tmp, memVars, persistVars, retryVars,
                 eventVars, targetVars,
                 transportVars, cmdVars, httpVars, formatVars>>

\* s.mu.Lock()
AppendLock(f) ==
    /\ mpc[f] = "lock"
    /\ CanLock(mu)
    /\ mu' = f
    /\ mpc' = [mpc EXCEPT ![f] = "load"]
    /\ UNCHANGED <<cur, tmp, issued, memVars, persistVars, retryVars,
                 eventVars, targetVars,
                 transportVars, cmdVars, httpVars, formatVars>>

\* msg := MemoryMessage{...}; the right-hand side append(s.Data[key], msg)
AppendLoad(f) ==
    /\ mpc[f] = "load"
    /\ LET msg == MemoryMessage(cur[f].role, cur[f].text, now)
       IN /\ cur' = [cur EXCEPT ![f].msg = msg]
          /\ tmp' = [tmp EXCEPT ![f] = Append(Data[FlowKey(f)], msg)]
    /\ mpc' = [mpc EXCEPT ![f] = "store"]
    /\ UNCHANGED <<mu, issued, memVars, persistVars, retryVars,
                 eventVars, targetVars,
                 transportVars, cmdVars, httpVars, formatVars>>

\* s.Data[key] = <the slice computed>
AppendStore(f) ==
    /\ mpc[f] = "store"
    /\ Data' = [Data EXCEPT ![FlowKey(f)] = tmp[f]]
    /\ log' = [log EXCEPT ![FlowKey(f)] = Append(log[FlowKey(f)], cur[f].msg)]
    /\ mpc' = [mpc EXCEPT ![f] = "trim"]
    /\ UNCHANGED <<mu, cur, tmp, issued, now, op, got, shared, persistVars, retryVars,
                 eventVars, targetVars,
                 transportVars, cmdVars, httpVars, formatVars>>

\* if s.MaxPerChat > 0 && len(s.Data[key]) > s.MaxPerChat { ... }
AppendTrim(f) ==
    /\ mpc[f] = "trim"
    /\ Data' = [Data EXCEPT ![FlowKey(f)] = TrimHistory(Data[FlowKey(f)])]
    /\ mpc' = [mpc EXCEPT ![f] = "unlock"]
    /\ UNCHANGED <<mu, cur, tmp, issued, now, log, op, got, shared, persistVars, retryVars,
                 eventVars, targetVars,
                 transportVars, cmdVars, httpVars, formatVars>>

\* the deferred s.mu.Unlock(); Append returns
AppendUnlock(f) ==
    /\ mpc[f] = "unlock"
    /\ mu' = "free"
    /\ mpc' = [mpc EXCEPT ![f] = "idle"]
    /\ cur' = [cur EXCEPT ![f] = NoCall]
    /\ tmp' = [tmp EXCEPT ![f] = <<>>]
    /\ UNCHANGED <<issued, memVars, persistVars, retryVars,
                 eventVars, targetVars,
                 transportVars, cmdVars, httpVars, formatVars>>

\* ---- what the flows did ----
AllReturned == \A f \in Flows : mpc[f] = "idle"
\* the numbers n of the calls flow f made on key k
CallsOn(f, k) == {n \in 1..Len(issued[f]) : issued[f][n] = k}
NumCallsOn(k) == Cardinality({<<f, n>> \in Flows \X (1..MaxFlowCalls) : n \in CallsOn(f, k)})
\* the entries of key k that the loaded file held
NumSaved(k) == Len(SelectSeq(log[k], LAMBDA m : m.Text[1] = "saved"))

\* C6: under any interleaving of concurrent Append calls, once all calls
\* have returned, the history of every key holds no entry twice, holds only
\* entries that were appended to that key, and holds min(cap, number of
\* entries appended to the key) of them, so that none is lost except by cap
\* eviction; the entries of one flow appear in the order of its calls, and
\* an entry of a flow is only missing if its earlier ones are missing too.
C6_ConcurrentAppendsAllKept ==
    AllReturned =>
        \A k \in Keys :
            LET h == Data[k] IN
            /\ \A x \in 1..Len(h), y \in 1..Len(h) : x # y => h[x].Text # h[y].Text
            /\ \A x \in 1..Len(h) :
                 \/ h[x].Text[1] = "saved"
                 \/ \E f \in Flows : h[x].Text[1] = f /\ h[x].Text[2] \in CallsOn(f, k)
            /\ Len(h) = Min(MaxPerChat, NumSaved(k) + NumCallsOn(k))
            /\ \A x \in 1..Len(h), y \in 1..Len(h) :
                 (x < y /\ h[x].Text[1] = h[y].Text[1]) => h[x].Text[2] < h[y].Text[2]
            /\ \A f \in Flows : \A n \in CallsOn(f, k), n2 \in CallsOn(f, k) :
                 (n < n2 /\ \E x \in 1..Len(h) : h[x].Text = <<f, n>>)
                    => \E y \in 1..Len(h) : h[y].Text = <<f, n2>>

\* both flows appended to one key whose history is at the cap, and returned
C6_Witness ==
    /\ AllReturned
    /\ \E k \in Keys :
         /\ \A f \in Flows : CallsOn(f, k) # {}
         /\ Len(Data[k]) = MaxPerChat
         /\ Len(log[k]) > MaxPerChat

\* ---- concurrent AppendAndSave calls ----
\* number of AppendAndSave calls made after start-up
MaxSaves == 3

\* s.mu.Lock() goes through only while no flow holds the write lock or a
\* read lock; s.mu.RLock() only while no flow holds the write lock
CanAppend_IgnoreReaders(m, rd) == m = "free"
CanAppend(m, rd) == m = "free" /\ rd = {}
CanRLock(m) == m = "free"

PersistFrame ==
    UNCHANGED <<mu, mpc, cur, tmp, issued, now, got, shared, retryVars, eventVars,
                targetVars, transportVars, cmdVars, httpVars, formatVars>>

\* flow f calls AppendAndSave: s.Append(...) runs from s.mu.Lock() to the
\* deferred s.mu.Unlock(); the text is new with every call
SaveAppend(f) ==
    /\ spc[f] = "idle"
    /\ TotalAppended < MaxSaves
    /\ CanAppend(mu, readers)
    /\ \E c \in Chats, a \in Personas :
         AppendEffect(c, a, NextRole, <<"new", TotalAppended + 1>>)
    /\ spc' = [spc EXCEPT ![f] = "rlock"]
    /\ UNCHANGED <<readers, snap, file>>
    /\ PersistFrame

\* Save: s.mu.RLock()
SaveRLock(f) ==
    /\ spc[f] = "rlock"
    /\ CanRLock(mu)
    /\ readers' = readers \cup {f}
    /\ spc' = [spc EXCEPT ![f] = "marshal"]
    /\ UNCHANGED <<snap, file, Data, log, op>>
    /\ PersistFrame

\* b, err := json.MarshalIndent(s.Data, "", "  ")
SaveMarshal(f) ==
    /\ spc[f] = "marshal"
    /\ snap' = [snap EXCEPT ![f] = Marshal(Data)]
    /\ spc' = [spc EXCEPT ![f] = "write"]
    /\ UNCHANGED <<readers, file, Data, log, op>>
    /\ PersistFrame

\* os.WriteFile(s.FilePath, b, 0o644), succeeding
SaveWrite(f) ==
    /\ spc[f] = "write"
    /\ file' = snap[f]
    /\ spc' = [spc EXCEPT ![f] = "runlock"]
    /\ UNCHANGED <<readers, snap, Data, log, op>>
    /\ PersistFrame

\* the deferred s.mu.RUnlock(); Save and AppendAndSave return
SaveRUnlock(f) ==
    /\ spc[f] = "runlock"
    /\ readers' = readers \ {f}
    /\ spc' = [spc EXCEPT ![f] = "idle"]
    /\ snap' = [snap EXCEPT ![f] = <<>>]
    /\ UNCHANGED <<file, Data, log, op>>
    /\ PersistFrame

\* C25: under any interleaving of concurrent AppendAndSave calls, from the
\* moment a Save has marshalled the store until it releases its lock the
\* store is the one it marshalled (no Append takes effect meanwhile), and
\* whenever every AppendAndSave call that started has returned, the file
\* holds the in-memory store: loading it gives the history of every key.
C25_FileFollowsStore ==
    /\ \A f \in Flows : spc[f] \in {"write", "runlock"} => snap[f] = Marshal(Data)
    /\ (\A f \in Flows : spc[f] = "idle") => Unmarshal(file) = Data

\* three calls were made and all returned; the file holds two keys, and an
\* entry of the loaded file has been evicted
C25_Witness ==
    /\ \A f \in Flows : spc[f] = "idle"
    /\ TotalAppended = 3
    /\ Len(file) = 2
    /\ file # Marshal(log)

\* ---- concurrent ask flows: the end of GetGeminiResponseWithMemory ----
\* number of turns stored after start-up, over all flows
MaxTurns == 2

\* the turns begun so far: the odd calls of every flow
NumTurns ==
    SumLen(issued, Flows)
    - SumLen([f \in Flows |-> SubSeq(issued[f], 1, Len(issued[f]) \div 2)], Flows)

\* Flow f, whose generation call returned a reply, makes its next
\* MemStore.AppendAndSave call: the "user" entry of a turn on a key, then the
\* "assistant" entry of that turn on the same key.  Append runs from
\* s.mu.Lock() to the deferred s.mu.Unlock(); Save follows.
TurnAppend(f) ==
    /\ spc[f] = "idle"
    /\ CanAppend(mu, readers)
    /\ LET n == Len(issued[f]) + 1 IN
       IF n % 2 = 1
         THEN /\ NumTurns < MaxTurns
              /\ \E c \in Chats, a \in Personas :
                   /\ AppendEffect(c, a, "user", <<"new", f, n>>)
                   /\ issued' = [issued EXCEPT ![f] = Append(issued[f], key(c, a))]
         ELSE \E c \in Chats, a \in Personas :
                   /\ key(c, a) = issued[f][n - 1]
                   /\ AppendEffect(c, a, "assistant", <<"new", f, n>>)
                   /\ issued' = [issued EXCEPT ![f] = Append(issued[f], key(c, a))]
    /\ spc' = [spc EXCEPT ![f] = "rlock"]
    /\ UNCHANGED <<mu, mpc, cur, tmp, now, got, shared, readers, snap, file,
                   retryVars, eventVars, targetVars, transportVars, cmdVars,
                   httpVars, formatVars>>

\* every flow has stored the whole of every turn it began, and returned
TurnsStored == \A f \in Flows : spc[f] = "idle" /\ Len(issued[f]) % 2 = 0

\* C27 as stated: for every key the history is a sequence of complete turns:
\* each "user" entry appended by an ask is immediately followed by the
\* "assistant" entry of that same ask, also when two ask flows for the same
\* key run concurrently.
C27_TurnsNotInterleaved ==
    TurnsStored =>
        \A k \in Keys : \A x \in 1..Len(Data[k]) :
            (Data[k][x].Text[1] = "new" /\ Data[k][x].Role = "user") =>
                /\ x < Len(Data[k])
                /\ Data[k][x + 1].Role = "assistant"
                /\ Data[k][x + 1].Text =
                      <<"new", Data[k][x].Text[2], Data[k][x].Text[3] + 1>>

(***************************************************************************)
(* Dispatch loop: EventHandler                                             *)
(***************************************************************************)

\* Characters are one-character strings; "U+0131" stands for the single
\* character LATIN SMALL LETTER DOTLESS I, whose upper case is "I" and which
\* strings.ToLower leaves alone.
LowerLetters == <<"a", "b", "c", "d", "e", "f", "g", "h", "i", "j", "k", "l", "m",
                  "n", "o", "p", "q", "r", "s", "t", "u", "v", "w", "x", "y", "z">>
UpperLetters == <<"A", "B", "C", "D", "E", "F", "G", "H", "I", "J", "K", "L", "M",
                  "N", "O", "P", "Q", "R", "S", "T", "U", "V", "W", "X", "Y", "Z">>
DotlessI == "U+0131"
WhiteSpace == {" ", "\t", "\n"}

IsUpperAscii(c) == \E j \in 1..Len(UpperLetters) : UpperLetters[j] = c
IsLowerAscii(c) == \E j \in 1..Len(LowerLetters) : LowerLetters[j] = c

\* the case mappings of the characters that have one
LowerOf == [c \in {UpperLetters[j] : j \in 1..Len(UpperLetters)} |->
               LowerLetters[CHOOSE j \in 1..Len(UpperLetters) : UpperLetters[j] = c]]
UpperOf == [c \in {LowerLetters[j] : j \in 1..Len(LowerLetters)} \cup {DotlessI} |->
               IF c = DotlessI THEN "I"
               ELSE UpperLetters[CHOOSE j \in 1..Len(LowerLetters) : LowerLetters[j] = c]]

\* unicode.ToLower / unicode.ToUpper on one character
ToLowerRune(c) == IF c \in DOMAIN LowerOf THEN LowerOf[c] ELSE c
ToUpperRune(c) == IF c \in DOMAIN UpperOf THEN UpperOf[c] ELSE c

\* strings.ToLower, strings.ToUpper, strings.HasPrefix, strings.TrimSpace
ToLower(str) == [j \in 1..Len(str) |-> ToLowerRune(str[j])]
ToUpper(str) == [j \in 1..Len(str) |-> ToUpperRune(str[j])]
HasPrefix(str, pre) == Len(pre) <= Len(str) /\ SubSeq(str, 1, Len(pre)) = pre
RECURSIVE TrimLeft(_)
TrimLeft(str) ==
    IF str # <<>> /\ str[1] \in WhiteSpace THEN TrimLeft(Tail(str)) ELSE str
RECURSIVE TrimRight(_)
TrimRight(str) ==
    IF str # <<>> /\ str[Len(str)] \in WhiteSpace
        THEN TrimRight(SubSeq(str, 1, Len(str) - 1))
        ELSE str
TrimSpace(str) == TrimRight(TrimLeft(str))

\* func hasCommandPrefix(message, command string) bool
hasCommandPrefix_CaseSensitive(msg, command) == HasPrefix(msg, command)
hasCommandPrefix(msg, command) == HasPrefix(ToLower(msg), ToLower(command))

\* The if / else-if chain of EventHandler, in its order: keyword and handler.
CommandChain ==
    << [kw |-> <<"h", "e", "l", "p">>,           fn |-> "handleHelpCommand"],
       [kw |-> <<"h", "a", "l", "l", "o">>,      fn |-> "handleHalloCommand"],
       [kw |-> <<"p", "i", "n", "g">>,           fn |-> "handlePingCommand"],
       [kw |-> <<"s", "t", "a", "t", "u", "s">>, fn |-> "handleStatusCommand"],
       [kw |-> <<"i", "n", "f", "o">>,           fn |-> "handleInfoCommand"],
       [kw |-> <<"g", "r", "o", "u", "p", "s">>, fn |-> "handleGroupsCommand"],
       [kw |-> <<"t", "e", "s", "t">>,           fn |-> "handleTestCommand"],
       [kw |-> <<"e", "c", "h", "o">>,           fn |-> "handleEchoCommand"],
       [kw |-> <<"f", "i", "q">>,                fn |-> "handleFiqCommand"],
       [kw |-> <<"a", "p", "i", "k">>,           fn |-> "handleApikCommand"],
       [kw |-> <<"i", "d", "x">>,                fn |-> "handleIDXCommand"],
       [kw |-> <<"i", "m", "g">>,                fn |-> "handleImgCommand"] >>

\* hasCommandPrefix(message, "/kw") || hasCommandPrefix(message, "!kw")
Matches_AnyLead(msg, kw) ==
    \/ hasCommandPrefix(msg, <<"/">> \o kw)
    \/ hasCommandPrefix(msg, <<"!">> \o kw)
    \/ hasCommandPrefix(msg, <<"#">> \o kw)
Matches(msg, kw) ==
    \/ hasCommandPrefix(msg, <<"/">> \o kw)
    \/ hasCommandPrefix(msg, <<"!">> \o kw)

\* The handler EventHandler calls for a message text: none for a blank text,
\* else the handler of the first branch of the chain that matches.
Dispatch(msg) ==
    IF TrimSpace(msg) = <<>> THEN "none"
    ELSE IF \E j \in 1..Len(CommandChain) : Matches(msg, CommandChain[j].kw)
        THEN LET first == CHOOSE j \in 1..Len(CommandChain) :
                              /\ Matches(msg, CommandChain[j].kw)
                              /\ \A j2 \in 1..(j - 1) : ~Matches(msg, CommandChain[j2].kw)
             IN CommandChain[first].fn
        ELSE "none"

\* ---- the message texts the dispatch is checked with ----
\* a word in lower case, in upper case, capitalised, and with one "i"
\* written as the dotless i
SpelledAs(word) ==
    {word, ToUpper(word)}
    \cup {[word EXCEPT ![j] = ToUpperRune(word[j])] : j \in {1} \cap DOMAIN word}
    \cup {[word EXCEPT ![j] = DotlessI] : j \in {n \in DOMAIN word : word[n] = "i"}}
\* a keyword of the chain, a truncated keyword, nothing at all
Words == {CommandChain[j].kw : j \in 1..Len(CommandChain)} \cup {<<"h", "e", "l">>, <<>>}
Leads == {<<"/">>, <<"!">>, <<"#">>, <<>>, <<" ", "/">>}
Tails == {<<>>, <<" ", "x">>, <<"X">>, <<" ">>}
Bodies ==
    UNION {{lead \o w \o tail : w \in SpelledAs(word)} :
              lead \in Leads, word \in Words, tail \in Tails}

EventStart ==
    /\ message \in Bodies
    /\ handler = "none"
    /\ evpc = "received"

\* no event in progress
EventIdle ==
    /\ message = <<>>
    /\ handler = "none"
    /\ evpc = "handled"

\* func EventHandler(evt interface{}), case *events.Message
EventHandler ==
    /\ evpc = "received"
    /\ handler' = Dispatch(message)
    /\ evpc' = "handled"
    /\ UNCHANGED <<message, retryVars, memVars, flowVars, targetVars,
                 transportVars, cmdVars, httpVars, formatVars>>

\* ---- rewritings of a message text ----
\* every text that differs from str only in the case of letters
CaseForms(c) == {c, ToUpperRune(c), ToLowerRune(c)}
RECURSIVE CaseChanges(_)
CaseChanges(str) ==
    IF str = <<>> THEN {<<>>}
    ELSE {<<c>> \o rest : c \in CaseForms(str[1]), rest \in CaseChanges(Tail(str))}
\* the same, changing only the letters a-z and A-Z
AsciiCaseForms(c) == IF IsUpperAscii(c) \/ IsLowerAscii(c) THEN CaseForms(c) ELSE {c}
RECURSIVE AsciiCaseChanges(_)
AsciiCaseChanges(str) ==
    IF str = <<>> THEN {<<>>}
    ELSE {<<c>> \o rest : c \in AsciiCaseForms(str[1]), rest \in AsciiCaseChanges(Tail(str))}
\* a leading "!" replaced by "/", a leading "/" by "!"
SwapPrefix(str) ==
    IF str # <<>> /\ str[1] = "!" THEN <<"/">> \o Tail(str)
    ELSE IF str # <<>> /\ str[1] = "/" THEN <<"!">> \o Tail(str)
    ELSE str

\* C8 as stated: the handler EventHandler dispatched to (or "none") is the
\* handler for every text obtained from the message by changing the case of
\* letters, by swapping a leading "!" and "/", or both.
C8_DispatchIgnoresCaseAndPrefix ==
    evpc = "handled" =>
        \A v \in CaseChanges(message) :
            Dispatch(v) = handler /\ Dispatch(SwapPrefix(v)) = handler

\* C8 (amended): the same for every change of case of the letters a-z and A-Z.
C8_DispatchIgnoresAsciiCaseAndPrefix ==
    evpc = "handled" =>
        \A v \in AsciiCaseChanges(message) :
            Dispatch(v) = handler /\ Dispatch(SwapPrefix(v)) = handler

\* "!S..." in mixed case was dispatched to the status handler
C8_Witness ==
    /\ evpc = "handled"
    /\ handler = "handleStatusCommand"
    /\ Len(message) > 3
    /\ message[1] = "!"
    /\ message[2] = "S"
    /\ message[3] = "t"

(***************************************************************************)
(* Target resolver: createTargetJID, isGroupJID, normalizePhoneNumber      *)
(***************************************************************************)

\* length of the part of a raw target before its suffix
MaxCoreLen == 4

Digits == {"0", "1", "2", "3", "4", "5", "6", "7", "8", "9"}
GroupSuffix == <<"@", "g", ".", "u", "s">>
\* types.GroupServer and types.DefaultUserServer
GroupServer == <<"g", ".", "u", "s">>
DefaultUserServer == <<"s", ".", "w", "h", "a", "t", "s", "a", "p", "p", ".", "n", "e", "t">>

HasSuffix(str, suf) ==
    Len(suf) <= Len(str) /\ SubSeq(str, Len(str) - Len(suf) + 1, Len(str)) = suf

\* regexp.MustCompile(`\D`).ReplaceAllString(phone, "")
StripNonDigits(str) == SelectSeq(str, LAMBDA c : c \in Digits)

\* func normalizePhoneNumber(phone string) string
normalizePhoneNumber(phone) ==
    LET p0 == StripNonDigits(phone)
        p1 == IF HasPrefix(p0, <<"0", "8">>)
                THEN <<"6", "2", "8">> \o SubSeq(p0, 3, Len(p0))
                ELSE p0
        p2 == IF HasPrefix(p1, <<"8">>) /\ ~HasPrefix(p1, <<"6", "2">>)
                THEN <<"6", "2">> \o p1
                ELSE p1
        p3 == IF HasPrefix(p2, <<"+", "6", "2">>)
                THEN SubSeq(p2, 2, Len(p2))
                ELSE p2
    IN IF ~HasPrefix(p3, <<"6", "2">>) THEN <<"6", "2">> \o p3 ELSE p3

\* func isGroupJID(target string) bool
isGroupJID(str) == HasSuffix(str, GroupSuffix)

\* types.JID, types.NewJID and the zero value types.JID{}
NewJID(user, server) == [User |-> user, Server |-> server]
EmptyJID == NewJID(<<>>, <<>>)
\* the address user@server a JID stands for
JIDAddress(j) == j.User \o <<"@">> \o j.Server

\* types.ParseJID(target) of the messaging library, for a target with one
\* "@": it fails, or it returns the JID with the user part before the "@"
\* and the server part after it.  Which targets it rejects is the library's
\* matter: both outcomes are possible for every target.
AtPos(str) == CHOOSE j \in 1..Len(str) : str[j] = "@"
ParseJID(str) ==
    {[ok |-> FALSE, jid |-> EmptyJID],
     [ok |-> TRUE, jid |-> NewJID(SubSeq(str, 1, AtPos(str) - 1),
                                  SubSeq(str, AtPos(str) + 1, Len(str)))]}

\* target = strings.TrimSpace(target), the first statement of createTargetJID
TargetTrim_None(str) == str
TargetTrim(str) == TrimSpace(str)

\* func createTargetJID(target string) types.JID: the JIDs it can return
createTargetJID(raw) ==
    LET t == TargetTrim(raw) IN
    IF isGroupJID(t)
        THEN {IF r.ok THEN r.jid ELSE EmptyJID : r \in ParseJID(t)}
        ELSE {NewJID(normalizePhoneNumber(t), DefaultUserServer)}

\* ---- the raw targets the resolver is checked with ----
TargetChars == {"0", "2", "6", "8", "+", "-"}
RECURSIVE SeqsUpTo(_, _)
SeqsUpTo(S, n) ==
    IF n = 0 THEN {<<>>}
    ELSE LET shorter == SeqsUpTo(S, n - 1)
         IN shorter \cup {<<c>> \o str : c \in S, str \in {x \in shorter : Len(x) = n - 1}}
Pads == {<<>>, <<" ">>}
Suffixes == {<<>>, GroupSuffix}
RawTargets ==
    {lead \o core \o suf \o trail :
        lead \in Pads, core \in SeqsUpTo(TargetChars, MaxCoreLen),
        suf \in Suffixes, trail \in Pads}

TargetStart ==
    /\ target \in RawTargets
    /\ jid = EmptyJID
    /\ tpc = "call"

\* no call of createTargetJID in progress
TargetIdle ==
    /\ target = <<>>
    /\ jid = EmptyJID
    /\ tpc = "done"

\* a call of createTargetJID(target)
ResolveTarget ==
    /\ tpc = "call"
    /\ jid' \in createTargetJID(target)
    /\ tpc' = "done"
    /\ UNCHANGED <<target, retryVars, memVars, flowVars, eventVars,
                 transportVars, cmdVars, httpVars, formatVars>>

\* C9 as stated: for every phone-like target (not a group identifier) whose
\* digits begin with the trunk prefix "0", createTargetJID returns an
\* individual target whose identifier is "62" followed by the digits without
\* the leading "0".
C9_TrunkPrefixReplaced ==
    LET d == StripNonDigits(TrimSpace(target)) IN
    (tpc = "done" /\ target # <<>> /\ ~isGroupJID(TrimSpace(target)) /\ HasPrefix(d, <<"0">>))
        => /\ jid.Server = DefaultUserServer
           /\ jid.User = <<"6", "2">> \o Tail(d)

\* C10: for every raw target whose trimmed form ends with "@g.us",
\* createTargetJID returns the empty JID or a group JID whose address
\* user@server is the trimmed target; it never returns an individual JID built by
\* normalizePhoneNumber.
C10_GroupSuffixNeverNormalized ==
    (tpc = "done" /\ HasSuffix(TrimSpace(target), GroupSuffix))
        => /\ jid.Server # DefaultUserServer
           /\ \/ jid = EmptyJID
              \/ jid.Server = GroupServer /\ JIDAddress(jid) = TrimSpace(target)

\* a padded group identifier was resolved to its group JID
C10_Witness ==
    /\ tpc = "done"
    /\ Len(target) > 2
    /\ target[1] = " "
    /\ target[Len(target)] = " "
    /\ jid.Server = GroupServer
    /\ jid.User = <<"6", "2", "8">>

(***************************************************************************)
(* Command handlers: what the handler EventHandler calls does              *)
(***************************************************************************)

\* the maxRetries the command handlers pass to sendMessageWithRetry, the one
\* handleImgCommand passes to sendImageWithRetry, and the limit
\* GetGeminiResponseWithMemory passes to GetHistory
HandlerRetries == 2
ImageRetries == 3
HistoryLimit == 6

\* One call sendMessageWithRetry(ctx, to, text, m), from iteration idx on:
\* the outcomes of the transport sends it makes, in order.  The call stops at
\* the first send that succeeds and at the end of the loop.
RECURSIVE RetryRuns(_, _)
RetryRuns(idx, m) ==
    IF ~LoopCond(idx, m) THEN {<<>>}
    ELSE {<<NilErr>>}
         \cup {<<e>> \o r : e \in TransportErrors, r \in RetryRuns(idx + 1, m)}
sendMessageWithRetry(m) == RetryRuns(0, m)
\* the value of err after the first n sends of a run, and the error returned
RECURSIVE ErrAfter(_, _)
ErrAfter(run, n) ==
    IF n = 0 THEN NilErr ELSE AssignErr(ErrAfter(run, n - 1), run[n])
RunErr(run) == ErrAfter(run, Len(run))
RunFailed(run) == RunErr(run) # NilErr

\* the entries of effects
\* (body is the text sent, kept where a claim is about it)
SendEffect(what, to, ok) ==
    [kind |-> "send", what |-> what, to |-> to, ok |-> ok, body |-> <<>>]
SendEffects(what, to, run) ==
    [j \in 1..Len(run) |-> SendEffect(what, to, run[j] = NilErr)]
UploadEffect(ok) ==
    [kind |-> "upload", what |-> "image", to |-> "", ok |-> ok, body |-> <<>>]
GenerateEffect(step, ok) ==
    [kind |-> "generate", what |-> step, to |-> "", ok |-> ok, body |-> <<>>]
IsSend(e) == e.kind = "send"
IsGenerate(e) == e.kind = "generate"

\* the "sedang berpikir" message an ask handler sends first
Acknowledge_Omitted(to, run) == <<>>
Acknowledge(to, run) == SendEffects("acknowledgment", to, run)

\* ---- NO_RESPONSE ----
\* strings.TrimSpace on the items of NO_RESPONSE and on chat ids
TrimmedItem ==
    [s \in {"", " ", " 120363@g.us "} \cup Chats |->
        IF s = " " THEN "" ELSE IF s = " 120363@g.us " THEN "120363@g.us" ELSE s]
\* the values of NO_RESPONSE: unset, one group, a padded group and a blank item
MuteLists == {<<>>, <<"120363@g.us">>, <<" 120363@g.us ", " ">>}

\* func getNoResponseGroups() []string
getNoResponseGroups(env) ==
    LET trimmed == [j \in 1..Len(env) |-> TrimmedItem[env[j]]]
    IN SelectSeq(trimmed, LAMBDA s : s # "")

\* func shouldIgnoreGroup(chatJID string) bool
shouldIgnoreGroup(env, chatJID) ==
    LET noResponseGroups == getNoResponseGroups(env)
    IN \E j \in 1..Len(noResponseGroups) :
           TrimmedItem[noResponseGroups[j]] = TrimmedItem[chatJID]

\* ---- the handlers ----
\* handlers that answer with one message
ReplyHandlers ==
    {"handleHelpCommand", "handleHalloCommand", "handlePingCommand",
     "handleStatusCommand", "handleInfoCommand", "handleGroupsCommand",
     "handleTestCommand"}
AskHandlers == {"handleFiqCommand", "handleApikCommand"}
\* the assistantName an ask handler passes to GetGeminiResponseWithMemory
AskPersona(fn) == IF fn = "handleFiqCommand" THEN "Fiq" ELSE "!apik"
\* the keyword of a handler in the chain
KeywordOf(fn) ==
    CommandChain[CHOOSE j \in 1..Len(CommandChain) : CommandChain[j].fn = fn].kw

\* The argument extraction of handleEchoCommand, handleFiqCommand,
\* handleApikCommand and handleImgCommand: with "!kw " or "/kw " in front
\* (any case), the rest of the message without surrounding white space.
CommandArgument(msg, kw) ==
    LET lower == ToLower(msg)
        n == Len(kw) + 2
    IN IF \/ HasPrefix(lower, <<"!">> \o kw \o <<" ">>)
          \/ HasPrefix(lower, <<"/">> \o kw \o <<" ">>)
         THEN [given |-> TRUE, text |-> TrimSpace(SubSeq(msg, n + 1, Len(msg)))]
         ELSE [given |-> FALSE, text |-> <<>>]
\* the handler goes on past its usage message
HasArgument(msg, kw) ==
    CommandArgument(msg, kw).given /\ CommandArgument(msg, kw).text # <<>>

\* handleEchoCommand: the header of the reply, the usage text, the text echoed
\* and the reply
EchoHeader == "Echo Response:"
EchoUsage == "Silakan berikan teks setelah perintah echo. Contoh: !echo Halo Dunia"
EchoKeyword == <<"e", "c", "h", "o">>
echoText_Lowered(originalMessage) ==
    LET arg == CommandArgument(ToLower(originalMessage), EchoKeyword)
    IN IF arg.given /\ arg.text # <<>> THEN arg.text ELSE <<EchoUsage>>
echoText(originalMessage) ==
    LET arg == CommandArgument(originalMessage, EchoKeyword)
    IN IF arg.given /\ arg.text # <<>> THEN arg.text ELSE <<EchoUsage>>
echoResponse(originalMessage) == <<EchoHeader>> \o echoText(originalMessage)
\* the sends of one sendMessageWithRetry call with that text
EchoEffects(to, text, run) ==
    [j \in 1..Len(run) |-> [SendEffect("reply", to, run[j] = NilErr) EXCEPT !.body = text]]

\* what GenerateResponseWithName and GetGeminiImage can come back with
GenerationOutcomes == {"ok", "API key not configured", "quota", "error"}

\* compressImage, compressImageAggressively and createThumbnail as called by
\* sendImageFallback
CompressEffect(fn, ok) ==
    [kind |-> "compress", what |-> fn, to |-> "", ok |-> ok, body |-> <<>>]
\* sendImageFallback up to the data URL: no compression for a small image,
\* else compressImage and, when its result is still large,
\* compressImageAggressively
CompressRuns ==
    {<<>>, <<CompressEffect("compressImage", FALSE)>>,
     <<CompressEffect("compressImage", TRUE)>>}
    \cup {<<CompressEffect("compressImage", TRUE),
            CompressEffect("compressImageAggressively", ok)>> : ok \in BOOLEAN}
\* sendImageFallback from the data URL on.  A short data URL is sent as it
\* is.  For a long one createThumbnail runs; the thumbnail message is sent
\* when the thumbnail was made and is short enough, and the fallback message
\* is sent unless the thumbnail message went out.
FallbackSends(to) ==
    {<<SendEffect("data URL", to, ok)>> : ok \in BOOLEAN} \cup
    {<<CompressEffect("createThumbnail", made), SendEffect("fallback message", to, ok)>> :
        made \in BOOLEAN, ok \in BOOLEAN} \cup
    {<<CompressEffect("createThumbnail", TRUE), SendEffect("thumbnail", to, TRUE)>>} \cup
    {<<CompressEffect("createThumbnail", TRUE), SendEffect("thumbnail", to, FALSE),
       SendEffect("fallback message", to, ok)>> : ok \in BOOLEAN}
\* func sendImageFallback(ctx, targetJID, imageBase64, caption) error
sendImageFallback(to) == {c \o f : c \in CompressRuns, f \in FallbackSends(to)}

\* sendImageWithRetry(ctx, to, image, caption, m) from iteration idx on: each
\* iteration fails at the upload, or uploads and fails at the send, or
\* uploads and sends the image; after the last iteration sendImageFallback
\* runs.  (The createThumbnail call of an iteration makes the preview put
\* into the image message; it is not recorded.)
ImageLoopCond_Once(idx, m) == idx < 1
ImageLoopCond(idx, m) == idx < m
RECURSIVE ImageRuns(_, _, _)
ImageRuns(idx, m, to) ==
    IF ~ImageLoopCond(idx, m) THEN sendImageFallback(to)
    ELSE {<<UploadEffect(TRUE), SendEffect("image", to, TRUE)>>}
         \cup {<<UploadEffect(FALSE)>> \o r : r \in ImageRuns(idx + 1, m, to)}
         \cup {<<UploadEffect(TRUE), SendEffect("image", to, FALSE)>> \o r :
                    r \in ImageRuns(idx + 1, m, to)}
\* an image that cannot be decoded or is too large ends the call at once
sendImageWithRetry(m, to) == {<<>>} \cup ImageRuns(0, m, to)
\* the call returns an error: it sent nothing, or its last send failed
ImageRunFailed(run) == run = <<>> \/ ~run[Len(run)].ok

\* ---- the events the handlers are checked with ----
\* texts after "echo ", each with the argument it stands for
EchoCases ==
    {[raw |-> <<" ", "h", "e", "l", "l", "o", " ", "w", "o", "r", "l", "d", " ", " ">>,
      arg |-> <<"h", "e", "l", "l", "o", " ", "w", "o", "r", "l", "d">>],
     [raw |-> <<"H", "i", " ", " ", "Y", "o", "\t">>,
      arg |-> <<"H", "i", " ", " ", "Y", "o">>],
     [raw |-> <<"\n", "a", "\t", "B", "\n">>, arg |-> <<"a", "\t", "B">>],
     [raw |-> <<"E", "C", "H", "O">>, arg |-> <<"E", "C", "H", "O">>],
     [raw |-> <<"x", "!">>, arg |-> <<"x", "!">>]}
EchoSpellings ==
    {EchoKeyword, ToUpper(EchoKeyword), <<"E", "c", "h", "o">>, <<"e", "c", "H", "O">>}
\* texts after "echo " that are blank
EchoBlanks == {<<>>, <<" ">>, <<"\t", " ">>}
EchoBodies ==
    {<<lead>> \o w \o <<" ">> \o text :
        lead \in {"!", "/"}, w \in EchoSpellings,
        text \in {c.raw : c \in EchoCases} \cup EchoBlanks}
CmdBodies ==
    EchoBodies \cup
    UNION {{lead \o w \o tail : w \in {word, ToUpper(word)}} :
              lead \in Leads, word \in Words, tail \in Tails}

CmdStart ==
    /\ message \in CmdBodies
    /\ handler = "none"
    /\ evpc = "received"
    /\ chat \in Chats
    /\ NO_RESPONSE \in MuteLists
    /\ hpc = "entry"

\* no event in progress
CmdIdle ==
    /\ chat = ""
    /\ NO_RESPONSE = <<>>
    /\ hpc = "entry"

TransportStart ==
    /\ connected \in BOOLEAN
    /\ effects = <<>>

TransportIdle ==
    /\ connected = FALSE
    /\ effects = <<>>

\* what a handler step leaves alone besides the store and its own position
HandlerFrame ==
    UNCHANGED <<eventVars, connected, chat, NO_RESPONSE, httpVars, formatVars>>

\* handleHelpCommand, handleHalloCommand, handlePingCommand,
\* handleStatusCommand, handleInfoCommand, handleGroupsCommand,
\* handleTestCommand: one reply, when connected; handleStatusCommand replies
\* when not connected too
ReplyCommand ==
    /\ evpc = "handled"
    /\ handler \in ReplyHandlers
    /\ hpc = "entry"
    /\ IF connected \/ handler = "handleStatusCommand"
         THEN \E run \in sendMessageWithRetry(HandlerRetries) :
                  effects' = effects \o SendEffects("reply", chat, run)
         ELSE effects' = effects
    /\ hpc' = "done"
    /\ HandlerFrame
    /\ UNCHANGED <<memVars, retryVars, flowVars, targetVars>>

\* func handleEchoCommand(v *events.Message, originalMessage string)
handleEchoCommand ==
    /\ evpc = "handled"
    /\ handler = "handleEchoCommand"
    /\ hpc = "entry"
    /\ IF ~connected
         THEN effects' = effects
         ELSE \E run \in sendMessageWithRetry(HandlerRetries) :
                  effects' = effects \o EchoEffects(chat, echoResponse(message), run)
    /\ hpc' = "done"
    /\ HandlerFrame
    /\ UNCHANGED <<memVars, retryVars, flowVars, targetVars>>

\* handleFiqCommand, handleApikCommand up to the call of
\* GetGeminiResponseWithMemory: the usage message, or the acknowledgment
AskCommand ==
    /\ evpc = "handled"
    /\ handler \in AskHandlers
    /\ hpc = "entry"
    /\ IF ~connected
         THEN effects' = effects /\ hpc' = "done"
         ELSE IF ~HasArgument(message, KeywordOf(handler))
           THEN /\ \E run \in sendMessageWithRetry(HandlerRetries) :
                       effects' = effects \o SendEffects("usage", chat, run)
                /\ hpc' = "done"
           ELSE /\ \E run \in sendMessageWithRetry(HandlerRetries) :
                       effects' = effects \o Acknowledge(chat, run)
                /\ hpc' = "history"
    /\ HandlerFrame
    /\ UNCHANGED <<memVars, retryVars, flowVars, targetVars>>

\* GetGeminiResponseWithMemory: MemStore.GetHistory(chatJID, assistantName, 6),
\* then the call of GenerateResponseWithName starts
AskHistory ==
    /\ hpc = "history"
    /\ GetHistory(chat, AskPersona(handler), HistoryLimit)
    /\ effects' = effects \o <<GenerateEffect("start", TRUE)>>
    /\ hpc' = "generating"
    /\ HandlerFrame

\* the message an ask handler sends for the error err of
\* GetGeminiResponseWithMemory
ApologyFor_Generic(out) == "apology"
ApologyFor(out) ==
    IF out = "API key not configured" THEN "apology: API key" ELSE "apology"

\* GenerateResponseWithName returns; on an error the handler sends its apology
AskGenerated ==
    /\ hpc = "generating"
    /\ \E out \in GenerationOutcomes :
         IF out = "ok"
           THEN /\ effects' = effects \o <<GenerateEffect("end", TRUE)>>
                /\ hpc' = "store user"
           ELSE /\ \E run \in sendMessageWithRetry(HandlerRetries) :
                       effects' = effects
                                  \o <<[GenerateEffect("end", FALSE) EXCEPT !.body = <<out>>]>>
                                  \o SendEffects(ApologyFor(out), chat, run)
                /\ hpc' = "done"
    /\ HandlerFrame
    /\ UNCHANGED <<memVars, retryVars, flowVars, targetVars>>

\* MemStore.AppendAndSave(chatJID, assistantName, "user", userMessage)
AskStoreUser ==
    /\ hpc = "store user"
    /\ MemAppend(chat, AskPersona(handler), "user", <<"new", TotalAppended + 1>>)
    /\ hpc' = "store assistant"
    /\ effects' = effects
    /\ HandlerFrame

\* MemStore.AppendAndSave(chatJID, assistantName, "assistant", reply)
AskStoreAssistant ==
    /\ hpc = "store assistant"
    /\ MemAppend(chat, AskPersona(handler), "assistant", <<"new", TotalAppended + 1>>)
    /\ hpc' = "answer"
    /\ effects' = effects
    /\ HandlerFrame

\* the final answer of handleFiqCommand, handleApikCommand
AskAnswer ==
    /\ hpc = "answer"
    /\ \E run \in sendMessageWithRetry(HandlerRetries) :
           effects' = effects \o SendEffects("answer", chat, run)
    /\ hpc' = "done"
    /\ HandlerFrame
    /\ UNCHANGED <<memVars, retryVars, flowVars, targetVars>>

\* handleIDXCommand up to the call of GetIDXMarketData: the loading message
IDXCommand ==
    /\ evpc = "handled"
    /\ handler = "handleIDXCommand"
    /\ hpc = "entry"
    /\ IF ~connected
         THEN effects' = effects /\ hpc' = "done"
         ELSE /\ \E run \in sendMessageWithRetry(HandlerRetries) :
                     effects' = effects \o SendEffects("acknowledgment", chat, run)
              /\ hpc' = "fetching"
    /\ HandlerFrame
    /\ UNCHANGED <<memVars, retryVars, flowVars, targetVars>>

\* GetIDXMarketData returns: the market data, or the error message
IDXFetched ==
    /\ hpc = "fetching"
    /\ \E ok \in BOOLEAN, run \in sendMessageWithRetry(HandlerRetries) :
           effects' = effects \o SendEffects(IF ok THEN "answer" ELSE "apology", chat, run)
    /\ hpc' = "done"
    /\ HandlerFrame
    /\ UNCHANGED <<memVars, retryVars, flowVars, targetVars>>

\* handleImgCommand up to the call of GetGeminiImage
ImgCommand ==
    /\ evpc = "handled"
    /\ handler = "handleImgCommand"
    /\ hpc = "entry"
    /\ IF ~connected
         THEN effects' = effects /\ hpc' = "done"
         ELSE IF ~HasArgument(message, KeywordOf(handler))
           THEN /\ \E run \in sendMessageWithRetry(HandlerRetries) :
                       effects' = effects \o SendEffects("usage", chat, run)
                /\ hpc' = "done"
           ELSE /\ \E run \in sendMessageWithRetry(HandlerRetries) :
                       effects' = effects \o SendEffects("acknowledgment", chat, run)
                                  \o <<GenerateEffect("start", TRUE)>>
                /\ hpc' = "generating image"
    /\ HandlerFrame
    /\ UNCHANGED <<memVars, retryVars, flowVars, targetVars>>

\* GetGeminiImage returns; on an error the handler sends its apology
ImgGenerated ==
    /\ hpc = "generating image"
    /\ \E out \in GenerationOutcomes :
         IF out = "ok"
           THEN /\ effects' = effects \o <<GenerateEffect("end", TRUE)>>
                /\ hpc' = "image"
           ELSE /\ \E run \in sendMessageWithRetry(HandlerRetries) :
                       effects' = effects \o <<GenerateEffect("end", FALSE)>>
                                  \o SendEffects("apology", chat, run)
                /\ hpc' = "done"
    /\ HandlerFrame
    /\ UNCHANGED <<memVars, retryVars, flowVars, targetVars>>

\* sendImageWithRetry(ctx, v.Info.Chat, imageBase64, caption, 3), and the
\* fallback message of the handler when it returns an error
ImgDeliver ==
    /\ hpc = "image"
    /\ \E img \in sendImageWithRetry(ImageRetries, chat) :
         IF ImageRunFailed(img)
           THEN \E run \in sendMessageWithRetry(HandlerRetries) :
                    effects' = effects \o img \o SendEffects("apology", chat, run)
           ELSE effects' = effects \o img
    /\ hpc' = "done"
    /\ HandlerFrame
    /\ UNCHANGED <<memVars, retryVars, flowVars, targetVars>>

\* the handler EventHandler called has returned, or none was called
EventDone == evpc = "handled" /\ (handler = "none" \/ hpc = "done")
\* the sends among the effects
SendsMade == SelectSeq(effects, IsSend)
\* the store is as InitMemory loaded it
MemoryUntouched == Data = log /\ TotalAppended = 0

\* C11 as stated: for every inbound message event whose chat is on the mute
\* list NO_RESPONSE, nothing is done: no send attempt, no generation call and
\* no append to the conversation memory, whatever the text.
C11_MutedChatDropped ==
    shouldIgnoreGroup(NO_RESPONSE, chat) => effects = <<>> /\ MemoryUntouched

\* the text starts, in any letter case, with "!" or "/" and a keyword
IsCommandText(text) ==
    \E j \in 1..Len(CommandChain), lead \in {"!", "/"} :
        HasPrefix(ToLower(text), <<lead>> \o CommandChain[j].kw)

\* C12: for every inbound message event whose text is empty or white space
\* only, or does not start (in any letter case) with "!" or "/" followed by a
\* keyword, no handler is called, no send attempt is made and the
\* conversation memory stays as it was.
C12_UnrecognisedTextIgnored ==
    (TrimSpace(message) = <<>> \/ ~IsCommandText(message))
        => /\ effects = <<>>
           /\ MemoryUntouched
           /\ handler = "none"
           /\ hpc = "entry"

\* EventHandler returned for "#ping" on a connected transport
C12_Witness ==
    /\ EventDone
    /\ connected
    /\ message = <<"#", "p", "i", "n", "g">>

\* the effects of the kinds C13 is about
IsAck(e) == IsSend(e) /\ e.what = "acknowledgment"
IsFinal(e) == IsSend(e) /\ e.what \in {"answer", "apology", "apology: API key"}
IsGenerateStart(e) == IsGenerate(e) /\ e.what = "start"
IsGenerateEnd(e) == IsGenerate(e) /\ e.what = "end"
AskWithQuestion ==
    /\ evpc = "handled"
    /\ handler \in AskHandlers
    /\ HasArgument(message, KeywordOf(handler))

\* C13: for every ask command with a non-empty question, the acknowledgment
\* send is attempted before the generation call starts, the final answer or
\* apology is sent only after the generation call has completed, and no
\* acknowledgment is attempted after the final message; a handler that ran
\* on a connected transport has attempted both.
C13_AckBeforeGenerationBeforeAnswer ==
    AskWithQuestion =>
        /\ \A b \in 1..Len(effects) :
              IsGenerateStart(effects[b]) =>
                  /\ \E a \in 1..(b - 1) : IsAck(effects[a])
                  /\ \A a \in b..Len(effects) : ~IsAck(effects[a])
        /\ \A b \in 1..Len(effects) :
              IsFinal(effects[b]) =>
                  /\ \E g \in 1..(b - 1) : IsGenerateEnd(effects[g])
                  /\ \A a \in b..Len(effects) : ~IsAck(effects[a]) /\ ~IsGenerate(effects[a])
        /\ (hpc = "done" /\ connected) =>
              /\ \E a \in 1..Len(effects) : IsAck(effects[a])
              /\ \E b \in 1..Len(effects) : IsFinal(effects[b])

\* handleApikCommand acknowledged at the second attempt, generated and
\* delivered the answer
C13_Witness ==
    /\ hpc = "done"
    /\ handler = "handleApikCommand"
    /\ Len(effects) = 5
    /\ IsAck(effects[1]) /\ ~effects[1].ok
    /\ IsAck(effects[2]) /\ effects[2].ok
    /\ IsFinal(effects[5]) /\ effects[5].what = "answer" /\ effects[5].ok

\* C21: for every body <prefix>echo<space><text> (prefix "!" or "/", the
\* keyword in any letter case) with a text that is not blank, handleEchoCommand
\* on a connected transport sends the reply, and the body of each of its send
\* attempts is the echo header followed by exactly the text without its
\* leading and trailing white space, inner white space and letter case kept.
\* For a blank text it is the header followed by the usage text.
C21_EchoRepliesTrimmedText ==
    (handler = "handleEchoCommand" /\ hpc = "done" /\ connected) =>
        /\ SendsMade # <<>>
        /\ \A lead \in {"!", "/"}, w \in EchoSpellings, c \in EchoCases :
              message = <<lead>> \o w \o <<" ">> \o c.raw =>
                  \A j \in 1..Len(effects) : effects[j].body = <<EchoHeader>> \o c.arg
        /\ \A lead \in {"!", "/"}, w \in EchoSpellings, blank \in EchoBlanks :
              message = <<lead>> \o w \o <<" ">> \o blank =>
                  \A j \in 1..Len(effects) : effects[j].body = <<EchoHeader, EchoUsage>>

\* "/ECHO Hi  Yo<tab>" was answered at the second attempt with "Hi  Yo"
C21_Witness ==
    /\ handler = "handleEchoCommand" /\ hpc = "done" /\ connected
    /\ message = <<"/", "E", "C", "H", "O", " ", "H", "i", " ", " ", "Y", "o", "\t">>
    /\ Len(effects) = 2
    /\ ~effects[1].ok /\ effects[2].ok
    /\ effects[2].body = <<EchoHeader, "H", "i", " ", " ", "Y", "o">>

\* C24: if the generation call of an ask command fails, the handler makes
\* exactly one apology delivery (one sendMessageWithRetry call: 1 to
\* HandlerRetries attempts, none after one that succeeded) with the tailored
\* text exactly when the error is "API key not configured", sends no final
\* answer, and leaves the conversation memory as it was: no entry is appended.
C24_GenerationFailureApologyOnly ==
    \A g \in 1..Len(effects) :
        (handler \in AskHandlers /\ IsGenerateEnd(effects[g]) /\ ~effects[g].ok) =>
            /\ hpc = "done"
            /\ MemoryUntouched
            /\ \A j \in 1..Len(effects) : ~(IsSend(effects[j]) /\ effects[j].what = "answer")
            /\ Len(effects) - g \in 1..HandlerRetries
            /\ \A j \in (g + 1)..Len(effects) :
                  /\ IsSend(effects[j])
                  /\ effects[j].what = (IF effects[g].body = <<"API key not configured">>
                                          THEN "apology: API key" ELSE "apology")
                  /\ j < Len(effects) => ~effects[j].ok

\* handleFiqCommand got "API key not configured" from the generation call
\* and delivered the tailored apology at the second attempt
C24_Witness ==
    /\ handler = "handleFiqCommand" /\ hpc = "done"
    /\ Len(effects) >= 4
    /\ IsGenerateEnd(effects[Len(effects) - 2])
    /\ effects[Len(effects) - 2].body = <<"API key not configured">>
    /\ ~effects[Len(effects) - 1].ok
    /\ effects[Len(effects)].what = "apology: API key" /\ effects[Len(effects)].ok

\* C29 as stated: when the transport reports itself not connected at the
\* start of a chat command handler, the handler makes no send attempt, for
\* every command (help, hallo, ping, status, info, test, echo, groups, ask,
\* idx, img).
C29_NoSendWhenDisconnected ==
    (~connected /\ handler # "none") => SendsMade = <<>>

\* the places in effects of the effects of one kind and name
Places(kind, what) ==
    {j \in 1..Len(effects) : effects[j].kind = kind /\ effects[j].what = what}
Times(kind, what) == Cardinality(Places(kind, what))
\* the effects of sendImageFallback
FallbackPlaces ==
    Places("compress", "compressImage") \cup Places("compress", "compressImageAggressively")
    \cup Places("compress", "createThumbnail") \cup Places("send", "data URL")
    \cup Places("send", "thumbnail") \cup Places("send", "fallback message")

MaxCommits == 4

\* how many commits formatGitHubMessage shows, the length of a short commit
\* id, and the longest commit message it shows in full
ShownCommits == 3
ShortIDLen == 7
MaxCommitMsg == 80

\* what a call returns: the message, as the sequence of its pieces, or the
\* run-time panic that ended it
Returned(pieces) == [ok |-> TRUE, message |-> pieces, panic |-> ""]
Panicked(why) == [ok |-> FALSE, message |-> <<>>, panic |-> why]

\* strings.Title on the words it is applied to
TitleOf ==
    [w \in {"", "opened", "closed", "reopened", "merged", "published",
            "ping", "Push", "star"} |->
        CASE w = "opened" -> "Opened"
          [] w = "closed" -> "Closed"
          [] w = "reopened" -> "Reopened"
          [] w = "merged" -> "Merged"
          [] w = "published" -> "Published"
          [] w = "ping" -> "Ping"
          [] w = "star" -> "Star"
          [] OTHER -> w]

\* strings.TrimPrefix(payload.Ref, "refs/heads/")
BranchOf ==
    [ref \in {"", "refs/heads/main", "refs/tags/v1"} |->
        IF ref = "refs/heads/main" THEN "main" ELSE ref]

\* func getPusherName(payload *GitHubWebhookPayload) string
getPusherName(p) ==
    IF p.Pusher.Name # "" THEN p.Pusher.Name
    ELSE IF p.Pusher.Login # "" THEN p.Pusher.Login
    ELSE IF p.Sender.Login # "" THEN p.Sender.Login
    ELSE "Unknown"

\* func getFileChangesSummary(commit Commit) string, as its pieces
getFileChangesSummary(commit) ==
    LET changes ==
            (IF commit.Added > 0 THEN <<<<"added", commit.Added>>>> ELSE <<>>)
            \o (IF commit.Modified > 0 THEN <<<<"modified", commit.Modified>>>> ELSE <<>>)
            \o (IF commit.Removed > 0 THEN <<<<"removed", commit.Removed>>>> ELSE <<>>)
    IN IF Len(changes) = 0 THEN <<>> ELSE <<"(", changes, ")">>

\* commit.ID[:7] is defined for an id of at least seven characters
ShortIDDefined(id) == Len(id) >= ShortIDLen
ShortID(id) == SubSeq(id, 1, ShortIDLen)

\* the commit message, truncated to 77 characters and "..." beyond 80
ShownMessage(text) ==
    IF Len(text) > MaxCommitMsg
        THEN SubSeq(text, 1, MaxCommitMsg - 3) \o <<".", ".", ".">>
        ELSE text

\* the line of one commit
CommitLine(commit) ==
    <<ShortID(commit.ID), ShownMessage(commit.Message), getFileChangesSummary(commit)>>

\* the emoji and the action word of the issues and pull_request cases
IssueEmoji(action) ==
    CASE action = "opened" -> "new"
      [] action = "closed" -> "check"
      [] action = "reopened" -> "again"
      [] OTHER -> "bug"
PullRequestEmoji(action, merged) ==
    CASE action = "opened" -> "new"
      [] action = "closed" -> IF merged THEN "check" ELSE "cross"
      [] action = "reopened" -> "again"
      [] OTHER -> "merge"
PullRequestAction(action, merged) ==
    IF action = "closed" /\ merged THEN "merged" ELSE action

\* the event types with a case of their own in the switch
KnownEventTypes == {"push", "issues", "pull_request", "release"}

\* the message of the default case
GenericSummary(et, p) ==
    <<"GitHub Event", TitleOf[et], p.Repository.FullName, p.Sender.Login,
      p.Repository.HTMLURL>>

\* func formatGitHubMessage(eventType string, payload *GitHubWebhookPayload) string.
\* payload.Issue and payload.PullRequest are pointers: the empty sequence is
\* nil, a sequence of one record the descriptor pointed to.
formatGitHubMessage(et, p) ==
    LET repo == p.Repository.FullName
        commitCount == Len(p.Commits)
        shown == IF commitCount < ShownCommits THEN commitCount ELSE ShownCommits
    IN CASE et = "push" ->
              IF commitCount = 0
                THEN Returned(<<"Push Event", repo, getPusherName(p), BranchOf[p.Ref],
                                "No commits in this push">>)
              ELSE IF \E j \in 1..shown : ~ShortIDDefined(p.Commits[j].ID)
                THEN Panicked("slice bounds out of range")
              ELSE Returned(<<"Push Event", repo, getPusherName(p), BranchOf[p.Ref],
                              commitCount>>
                            \o [j \in 1..shown |-> CommitLine(p.Commits[j])]
                            \o (IF commitCount > ShownCommits
                                  THEN <<<<"more commits", commitCount - ShownCommits>>>>
                                  ELSE <<>>)
                            \o <<p.Repository.HTMLURL>>)
         [] et = "issues" ->
              IF p.Issue = <<>>
                THEN Panicked("nil pointer dereference")
                ELSE Returned(<<IssueEmoji(p.Action), "Issue", TitleOf[p.Action], repo,
                                p.Sender.Login, p.Issue[1].Number, p.Issue[1].Title,
                                p.Issue[1].HTMLURL>>)
         [] et = "pull_request" ->
              IF p.PullRequest = <<>>
                THEN Panicked("nil pointer dereference")
                ELSE LET pr == p.PullRequest[1]
                     IN Returned(<<PullRequestEmoji(p.Action, pr.Merged), "Pull Request",
                                   TitleOf[PullRequestAction(p.Action, pr.Merged)], repo,
                                   p.Sender.Login, pr.Number, pr.Title, pr.HTMLURL>>)
         [] et = "release" ->
              Returned(<<"Release", TitleOf[p.Action], repo, p.Sender.Login,
                         p.Repository.HTMLURL>>)
         [] OTHER -> Returned(GenericSummary(et, p))

\* ---- the payloads the formatting is checked with ----
\* what json.Unmarshal produces: absent keys leave the zero value
TheRepository == [Name |-> "wa-bot", FullName |-> "SyafiqMSI/wa-bot",
                  HTMLURL |-> "https://github.com/SyafiqMSI/wa-bot"]
Users == {[Login |-> "", Name |-> ""], [Login |-> "syafiq", Name |-> ""],
          [Login |-> "syafiq", Name |-> "Syafiq"]}
LongMessage == [j \in 1..(MaxCommitMsg + 1) |-> "x"]
\* a commit with a full id, one with an abbreviated id, one without id
SomeCommits ==
    {[ID |-> <<"4", "f", "2", "a", "9", "c", "1", "e">>, Message |-> <<"f", "i", "x">>,
      Added |-> 1, Modified |-> 0, Removed |-> 2],
     [ID |-> <<"4", "f", "2">>, Message |-> LongMessage,
      Added |-> 0, Modified |-> 0, Removed |-> 0],
     [ID |-> <<>>, Message |-> <<>>, Added |-> 0, Modified |-> 1, Removed |-> 0]}
SomeIssue == [Number |-> 7, Title |-> "crash", HTMLURL |-> "https://github.com/i/7",
              State |-> "open"]
SomePullRequest(merged) ==
    [Number |-> 8, Title |-> "fix", HTMLURL |-> "https://github.com/p/8",
     State |-> "closed", Merged |-> merged]
Actions == {"", "opened", "closed", "reopened"}
EventTypes == KnownEventTypes \cup {"ping", "star", "Push", ""}
Payloads ==
    [Action : Actions,
     Repository : {TheRepository},
     Sender : {u \in Users : u.Name = ""},
     Pusher : Users,
     Commits : SeqsUpTo(SomeCommits, MaxCommits),
     Ref : {"refs/heads/main"},
     Issue : {<<>>, <<SomeIssue>>},
     PullRequest : {<<>>} \cup {<<SomePullRequest(m)>> : m \in BOOLEAN}]

FormatStart ==
    /\ eventType \in EventTypes
    /\ payload \in Payloads
    /\ formatted = Returned(<<>>)
    /\ fpc = "call"

\* no call of formatGitHubMessage in progress
FormatIdle ==
    /\ eventType = ""
    /\ payload = <<>>
    /\ formatted = Returned(<<>>)
    /\ fpc = "done"

\* a call of formatGitHubMessage(eventType, payload)
FormatMessage ==
    /\ fpc = "call"
    /\ formatted' = formatGitHubMessage(eventType, payload)
    /\ fpc' = "done"
    /\ UNCHANGED <<eventType, payload, retryVars, memVars, flowVars, eventVars,
                   targetVars, transportVars, cmdVars, httpVars>>

\* C20 as stated: for every event type and every parsed payload, also one
\* without issue or pull-request descriptor or with short commit ids,
\* formatGitHubMessage returns one message and does not fail; every event
\* type other than push, issues, pull_request and release yields the generic
\* summary.
C20_FormatNeverFails ==
    fpc = "done" =>
        /\ formatted.ok
        /\ eventType \notin KnownEventTypes
               => formatted.message = GenericSummary(eventType, payload)

(***************************************************************************)
(* HTTP handlers: /send-message, the bulk send and the GitHub webhook      *)
(***************************************************************************)

\* the longest target list the fan-out is checked with
MaxTargets == 2

\* the maxRetries handleSendMessage passes to sendMessageWithRetry, and the
\* one the fan-out loops pass
SendMessageRetries == 3
FanOutRetries == 2

\* the secret the handlers compare with: API_SECRET, "default-secret" if unset
ConfiguredSecret(env) == IF env = "" THEN "default-secret" ELSE env
\* if req.Secret != SECRET
SecretMatches_Any(given, env) == TRUE
SecretMatches(given, env) == given = ConfiguredSecret(env)

\* WaClient.IsConnected() as the HTTP handlers test it
IsConnected_Assumed(c) == TRUE
IsConnected(c) == c

\* targetJID.IsEmpty()
IsEmpty(j) == j.Server = <<>>

\* strings.Split(str, sep) for a separator of one character
RECURSIVE Split(_, _)
Split(str, sep) ==
    IF \A j \in 1..Len(str) : str[j] # sep THEN <<str>>
    ELSE LET k == CHOOSE j \in 1..Len(str) :
                      /\ str[j] = sep
                      /\ \A j2 \in 1..(j - 1) : str[j2] # sep
         IN <<SubSeq(str, 1, k - 1)>> \o Split(SubSeq(str, k + 1, Len(str)), sep)

\* the text of a list: its items with sep between them
RECURSIVE Join(_, _)
Join(items, sep) ==
    IF Len(items) = 0 THEN <<>>
    ELSE IF Len(items) = 1 THEN items[1]
    ELSE items[1] \o <<sep>> \o Join(Tail(items), sep)

\* func getNotificationTargets() []string
getNotificationTargets_AlwaysSplit(env) == Split(env, ",")
getNotificationTargets(env) == IF env = <<>> THEN <<>> ELSE Split(env, ",")

\* the targets of the webhook: the jid query parameter alone, or the
\* configured list
SelectTargets_Both(customJID, env) ==
    IF customJID # <<>> THEN <<customJID>> \o getNotificationTargets(env)
    ELSE getNotificationTargets(env)
SelectTargets(customJID, env) ==
    IF customJID # <<>> THEN <<customJID>> ELSE getNotificationTargets(env)

\* targetType and displayTarget of the handlers
TargetType(raw) == IF isGroupJID(raw) THEN "group" ELSE "individual"
DisplayTarget(raw) == IF isGroupJID(raw) THEN raw ELSE normalizePhoneNumber(raw)
WebhookDisplayTarget(raw) ==
    IF isGroupJID(raw) THEN raw ELSE normalizePhoneNumber(TrimSpace(raw))

\* successCount++ in the else branch of err != nil
CountSuccess_Always(count, failed) == count + 1
CountSuccess(count, failed) == IF failed THEN count ELSE count + 1

\* the index the loop goes on with after a target: the loops have no break
NextIndex_StopOnFailure(idx, n, failed) == IF failed THEN n + 1 ELSE idx + 1
NextIndex(idx, n, failed) == idx + 1

\* the resolution of target number idx, as an entry of effects
ResolveEffect(idx, j) ==
    [kind |-> "resolve", what |-> idx, to |-> j, ok |-> ~IsEmpty(j), body |-> <<>>]
IsResolve(e) == e.kind = "resolve"

\* results[i] of a target that was resolved: "error" is set when err != nil
BulkResult(raw, run) ==
    IF RunFailed(run)
      THEN [original_target |-> raw, target |-> DisplayTarget(raw),
            target_type |-> TargetType(raw), success |-> FALSE,
            error |-> RunErr(run).msg]
      ELSE [original_target |-> raw, target |-> DisplayTarget(raw),
            target_type |-> TargetType(raw), success |-> TRUE]
WebhookResult(raw, run) ==
    IF RunFailed(run)
      THEN [target |-> WebhookDisplayTarget(raw), target_type |-> TargetType(raw),
            success |-> FALSE, error |-> RunErr(run).msg]
      ELSE [target |-> WebhookDisplayTarget(raw), target_type |-> TargetType(raw),
            success |-> TRUE]

\* ---- responses ----
NoResponse == [status |-> 0, body |-> [error |-> ""]]
ErrorResponse(code, text) == [status |-> code, body |-> [error |-> text]]

\* ---- the requests the handlers are checked with ----
\* a phone number, a group identifier, a group identifier followed by a
\* space, and the empty string
FanTargets ==
    {<<"0", "8", "1">>,
     <<"1", "2", "@", "g", ".", "u", "s">>,
     <<"1", "2", "@", "g", ".", "u", "s", " ">>,
     <<>>}
TargetLists == SeqsUpTo(FanTargets, MaxTargets)
Secrets == {"default-secret", "s3cret", ""}

\* a body json.Decoder rejects leaves the fields decoded so far
SendMessageRequests ==
    [endpoint : {"send-message"}, decoded : BOOLEAN, secret : Secrets,
     target : FanTargets]
BulkRequests ==
    [endpoint : {"bulk"}, decoded : BOOLEAN, secret : Secrets,
     targetList : TargetLists]

\* the payload of a ping, and a push of one commit
ZeroPayload ==
    [Action |-> "", Repository |-> TheRepository,
     Sender |-> [Login |-> "syafiq", Name |-> ""],
     Pusher |-> [Login |-> "", Name |-> ""],
     Commits |-> <<>>, Ref |-> "", Issue |-> <<>>, PullRequest |-> <<>>]
PushPayload ==
    [ZeroPayload EXCEPT
        !.Commits = <<[ID |-> <<"4", "f", "2", "a", "9", "c", "1", "e">>,
                       Message |-> <<"f", "i", "x">>,
                       Added |-> 1, Modified |-> 0, Removed |-> 0]>>,
        !.Ref = "refs/heads/main"]
\* a webhook request: whether io.ReadAll succeeds, the X-GitHub-Event header
\* ("" when absent), whether the body is JSON, the payload it decodes to and
\* the jid query parameter (empty when absent)
WellFormedWebhooks ==
    [endpoint : {"github-webhook"}, readable : {TRUE}, parses : {TRUE},
     header : {"push", "ping", "issues"},
     payload : {ZeroPayload, PushPayload},
     jid : {<<>>, <<"0", "8", "1">>, <<"1", "2", "@", "g", ".", "u", "s">>}]
WebhookRequests ==
    WellFormedWebhooks
    \cup {[r EXCEPT !.readable = FALSE] : r \in WellFormedWebhooks}
    \cup {[r EXCEPT !.parses = FALSE] : r \in WellFormedWebhooks}
    \cup {[r EXCEPT !.header = ""] : r \in WellFormedWebhooks}
\* the request passes the three checks that answer 400
WellFormed(r) == r.readable /\ r.header # "" /\ r.parses

HttpStart ==
    /\ request \in SendMessageRequests \cup BulkRequests \cup WebhookRequests
    /\ API_SECRET \in {"", "s3cret"}
    /\ NOTIFICATION_TARGETS \in {Join(l, ",") : l \in TargetLists}
    /\ request.endpoint = "github-webhook" => API_SECRET = ""
    /\ request.endpoint # "github-webhook" => NOTIFICATION_TARGETS = <<>>
    /\ targets = <<>>
    /\ tidx = 1
    /\ results = <<>>
    /\ successCount = 0
    /\ response = NoResponse
    /\ wpc = "received"

\* no request in progress
HttpIdle ==
    /\ request = [endpoint |-> "none"]
    /\ API_SECRET = ""
    /\ NOTIFICATION_TARGETS = <<>>
    /\ targets = <<>>
    /\ tidx = 1
    /\ results = <<>>
    /\ successCount = 0
    /\ response = NoResponse
    /\ wpc = "done"

\* what a step of an HTTP handler leaves alone besides its own variables
HttpFrame ==
    UNCHANGED <<request, API_SECRET, NOTIFICATION_TARGETS, connected,
                retryVars, memVars, flowVars, eventVars, targetVars, cmdVars,
                formatVars>>

\* func handleSendMessage(w http.ResponseWriter, r *http.Request)
handleSendMessage ==
    /\ wpc = "received"
    /\ request.endpoint = "send-message"
    /\ IF ~request.decoded
         THEN /\ response' = ErrorResponse(400, "decode")
              /\ effects' = effects
       ELSE IF ~SecretMatches(request.secret, API_SECRET)
         THEN /\ response' = ErrorResponse(401, "Unauthorized")
              /\ effects' = effects
       ELSE IF ~IsConnected(connected)
         THEN /\ response' = ErrorResponse(503, "WhatsApp client not connected")
              /\ effects' = effects
       ELSE \E targetJID \in createTargetJID(request.target) :
              IF IsEmpty(targetJID)
                THEN /\ response' = [status |-> 400,
                                     body |-> [error |-> "Invalid target format",
                                               target |-> request.target]]
                     /\ effects' = effects \o <<ResolveEffect(1, targetJID)>>
                ELSE \E run \in sendMessageWithRetry(SendMessageRetries) :
                       /\ effects' = effects \o <<ResolveEffect(1, targetJID)>>
                                     \o SendEffects(1, targetJID, run)
                       /\ response' =
                            IF RunFailed(run)
                              THEN [status |-> 500,
                                    body |-> [error |-> RunErr(run).msg,
                                              original_target |-> request.target,
                                              target_type |-> TargetType(request.target)]]
                              ELSE [status |-> 200,
                                    body |-> [status |-> "Success",
                                              target |-> DisplayTarget(request.target),
                                              target_type |-> TargetType(request.target)]]
    /\ wpc' = "done"
    /\ UNCHANGED <<targets, tidx, results, successCount>>
    /\ HttpFrame

\* handleBulkSendSameMessage up to its loop
BulkReceive ==
    /\ wpc = "received"
    /\ request.endpoint = "bulk"
    /\ IF ~request.decoded
         THEN response' = ErrorResponse(400, "decode") /\ wpc' = "done"
       ELSE IF ~SecretMatches(request.secret, API_SECRET)
         THEN response' = ErrorResponse(401, "Unauthorized") /\ wpc' = "done"
       ELSE IF ~IsConnected(connected)
         THEN /\ response' = ErrorResponse(503, "WhatsApp client not connected")
              /\ wpc' = "done"
       ELSE response' = response /\ wpc' = "loop"
    /\ targets' = IF wpc' = "loop" THEN request.targetList ELSE targets
    /\ UNCHANGED <<tidx, results, successCount, effects>>
    /\ HttpFrame

\* one iteration of the loop of handleBulkSendSameMessage
BulkIteration ==
    /\ wpc = "loop"
    /\ request.endpoint = "bulk"
    /\ tidx <= Len(targets)
    /\ LET raw == targets[tidx] IN
       \E targetJID \in createTargetJID(raw) :
         IF IsEmpty(targetJID)
           THEN /\ results' = Append(results, [original_target |-> raw,
                                               success |-> FALSE,
                                               error |-> "Invalid JID format"])
                /\ effects' = effects \o <<ResolveEffect(tidx, targetJID)>>
                /\ tidx' = tidx + 1
           ELSE \E run \in sendMessageWithRetry(FanOutRetries) :
                  /\ effects' = effects \o <<ResolveEffect(tidx, targetJID)>>
                                \o SendEffects(tidx, targetJID, run)
                  /\ results' = Append(results, BulkResult(raw, run))
                  /\ tidx' = NextIndex(tidx, Len(targets), RunFailed(run))
    /\ UNCHANGED <<targets, successCount, response, wpc>>
    /\ HttpFrame

\* the response of handleBulkSendSameMessage
BulkRespond ==
    /\ wpc = "loop"
    /\ request.endpoint = "bulk"
    /\ tidx > Len(targets)
    /\ response' = [status |-> 200,
                    body |-> [status |-> "Bulk same message processing completed",
                              results |-> results]]
    /\ wpc' = "done"
    /\ UNCHANGED <<targets, tidx, results, successCount, effects>>
    /\ HttpFrame

\* handleGitHubWebhook up to the choice of the targets
WebhookReceive ==
    /\ wpc = "received"
    /\ request.endpoint = "github-webhook"
    /\ LET chosen == SelectTargets(request.jid, NOTIFICATION_TARGETS) IN
       IF ~request.readable
         THEN /\ response' = ErrorResponse(400, "Failed to read request body")
              /\ wpc' = "done" /\ targets' = targets
       ELSE IF request.header = ""
         THEN /\ response' = ErrorResponse(400, "Missing X-GitHub-Event header")
              /\ wpc' = "done" /\ targets' = targets
       ELSE IF ~request.parses
         THEN /\ response' = ErrorResponse(400, "Failed to parse JSON payload")
              /\ wpc' = "done" /\ targets' = targets
       ELSE IF ~IsConnected(connected)
         THEN /\ response' = ErrorResponse(503, "WhatsApp client not connected")
              /\ wpc' = "done" /\ targets' = targets
       ELSE IF Len(chosen) = 0
         THEN /\ response' =
                    [status |-> 200,
                     body |-> [status |-> "Webhook received but no notification targets configured",
                               event |-> request.header]]
              /\ wpc' = "done" /\ targets' = chosen
       ELSE /\ response' = response
            /\ wpc' = "format" /\ targets' = chosen
    /\ UNCHANGED <<tidx, results, successCount, effects>>
    /\ HttpFrame

\* message := formatGitHubMessage(eventType, &payload); a panic ends the
\* handler without a response
WebhookFormat ==
    /\ wpc = "format"
    /\ wpc' = IF formatGitHubMessage(request.header, request.payload).ok
                THEN "loop" ELSE "panicked"
    /\ UNCHANGED <<targets, tidx, results, successCount, response, effects>>
    /\ HttpFrame

\* one iteration of the loop of handleGitHubWebhook
WebhookIteration ==
    /\ wpc = "loop"
    /\ request.endpoint = "github-webhook"
    /\ tidx <= Len(targets)
    /\ LET raw == targets[tidx] IN
       \E targetJID \in createTargetJID(raw) :
         IF IsEmpty(targetJID)
           THEN /\ results' = Append(results, [target |-> raw,
                                               success |-> FALSE,
                                               error |-> "Invalid JID format"])
                /\ effects' = effects \o <<ResolveEffect(tidx, targetJID)>>
                /\ successCount' = successCount
                /\ tidx' = tidx + 1
           ELSE \E run \in sendMessageWithRetry(FanOutRetries) :
                  /\ effects' = effects \o <<ResolveEffect(tidx, targetJID)>>
                                \o SendEffects(tidx, targetJID, run)
                  /\ results' = Append(results, WebhookResult(raw, run))
                  /\ successCount' = CountSuccess(successCount, RunFailed(run))
                  /\ tidx' = NextIndex(tidx, Len(targets), RunFailed(run))
    /\ UNCHANGED <<targets, response, wpc>>
    /\ HttpFrame

\* the response of handleGitHubWebhook
WebhookRespond ==
    /\ wpc = "loop"
    /\ request.endpoint = "github-webhook"
    /\ tidx > Len(targets)
    /\ response' =
          [status |-> 200,
           body |-> [status |-> "Webhook processed",
                     event |-> request.header,
                     repository |-> request.payload.Repository.FullName,
                     targets_sent |-> successCount,
                     total_targets |-> Len(targets),
                     custom_jid |-> request.jid # <<>>,
                     target_source |-> IF request.jid # <<>> THEN "query_parameter"
                                       ELSE "environment",
                     results |-> results]]
    /\ wpc' = "done"
    /\ UNCHANGED <<targets, tidx, results, successCount, effects>>
    /\ HttpFrame

\* ---- what the claims about the HTTP handlers speak of ----
\* the send attempts made for target number idx
AttemptsFor(idx) == SelectSeq(effects, LAMBDA e : IsSend(e) /\ e.what = idx)
\* some send attempt for target number idx succeeded
Delivered(idx) == \E j \in 1..Len(effects) :
                      IsSend(effects[j]) /\ effects[j].what = idx /\ effects[j].ok
NoSends == \A j \in 1..Len(effects) : ~IsSend(effects[j])
\* the handler has answered with the summary of its fan-out
FanOutAnswered ==
    /\ wpc = "done"
    /\ response.status = 200
    /\ response.body.status \in {"Webhook processed",
                                 "Bulk same message processing completed"}
\* the resolution of target number idx succeeded
Resolved(idx) == \E j \in 1..Len(effects) :
                     IsResolve(effects[j]) /\ effects[j].what = idx /\ effects[j].ok
SecretDiffers == request.secret # (IF API_SECRET = "" THEN "default-secret" ELSE API_SECRET)

\* C14: POST /send-message checks in a fixed order: a secret that differs from
\* the configured one ("default-secret" when unset) gives 401, otherwise a
\* transport that is not connected gives 503, otherwise a target that cannot
\* be resolved gives 400; only when the three checks pass are sends
\* attempted, at most 3, answered by 200 when one succeeded and by 500 with
\* the text of the transport error when all failed.  A request with a wrong
\* secret never causes a send attempt.  (The statuses are those of a request
\* whose body was decoded.)
C14_SendMessagePrecedence ==
    (request.endpoint = "send-message" /\ wpc = "done") =>
        /\ SecretDiffers => NoSends
        /\ request.decoded =>
              /\ response.status = 401 <=> SecretDiffers
              /\ response.status = 503 <=> (~SecretDiffers /\ ~connected)
              /\ response.status = 400 <=> (~SecretDiffers /\ connected /\ ~Resolved(1))
              /\ ~NoSends <=> (~SecretDiffers /\ connected /\ Resolved(1))
              /\ Len(AttemptsFor(1)) <= 3
              /\ response.status = 200 <=> Delivered(1)
              /\ response.status = 500 <=>
                     (Len(AttemptsFor(1)) = 3 /\ ~Delivered(1))
              /\ response.status = 500 =>
                     response.body.error \in {e.msg : e \in TransportErrors}
              /\ response.status \in {200, 400, 401, 500, 503}

\* /send-message answered 500 after three failed attempts
C14_Witness ==
    /\ request.endpoint = "send-message"
    /\ wpc = "done"
    /\ response.status = 500
    /\ Len(AttemptsFor(1)) = 3
    /\ API_SECRET = ""

\* C15 as stated: every webhook request handled while the transport is not
\* connected is answered 503 and causes no send attempt.
C15_DisconnectedAlways503 ==
    (request.endpoint = "github-webhook" /\ ~connected /\ wpc = "done")
        => response.status = 503 /\ NoSends

\* C15, amended: a webhook request handled while the transport is not
\* connected causes no send attempt; it is answered 503 if its body can be
\* read, its X-GitHub-Event header is present and its payload parses, and
\* 400 otherwise.
C15_DisconnectedNoDelivery ==
    (request.endpoint = "github-webhook" /\ ~connected) =>
        /\ effects = <<>>
        /\ wpc \in {"received", "done"}
        /\ wpc = "done" =>
              response.status = IF WellFormed(request) THEN 503 ELSE 400

\* a well-formed webhook with targets configured was answered 503
C15_Witness ==
    /\ request.endpoint = "github-webhook"
    /\ ~connected
    /\ wpc = "done"
    /\ response.status = 503
    /\ NOTIFICATION_TARGETS # <<>>

\* C16: with a non-empty jid query parameter the webhook makes send attempts
\* only to that one target, whatever NOTIFICATION_TARGETS holds, and its
\* summary reports total_targets = 1 and target_source = "query_parameter".
C16_OverrideIsSoleTarget ==
    (request.endpoint = "github-webhook" /\ request.jid # <<>>) =>
        /\ \A j \in 1..Len(effects) :
              IsSend(effects[j]) =>
                  /\ effects[j].what = 1
                  /\ effects[j].to \in createTargetJID(request.jid)
        /\ wpc \in {"format", "loop", "panicked"} => targets = <<request.jid>>
        /\ (wpc = "done" /\ WellFormed(request) /\ connected) =>
              /\ response.status = 200
              /\ response.body.status = "Webhook processed"
              /\ response.body.total_targets = 1
              /\ response.body.target_source = "query_parameter"
              /\ Len(response.body.results) = 1

\* the webhook delivered to the jid parameter while two targets were configured
C16_Witness ==
    /\ request.endpoint = "github-webhook"
    /\ request.jid = <<"0", "8", "1">>
    /\ Len(getNotificationTargets(NOTIFICATION_TARGETS)) = 2
    /\ wpc = "done"
    /\ Delivered(1)

\* C17: without jid parameter and with no target configured the webhook
\* makes no send attempt, and the request that reaches the choice of targets
\* is answered 200 "Webhook received but no notification targets configured".
C17_NoTargetsNoOp ==
    (request.endpoint = "github-webhook" /\ request.jid = <<>>
        /\ NOTIFICATION_TARGETS = <<>>) =>
        /\ effects = <<>>
        /\ wpc \in {"received", "done"}
        /\ (wpc = "done" /\ WellFormed(request) /\ connected) =>
              response = [status |-> 200,
                          body |-> [status |-> "Webhook received but no notification targets configured",
                                    event |-> request.header]]

\* a push was acknowledged with no target configured
C17_Witness ==
    /\ request.endpoint = "github-webhook"
    /\ request.jid = <<>>
    /\ NOTIFICATION_TARGETS = <<>>
    /\ request.header = "push"
    /\ wpc = "done"
    /\ response.status = 200

\* C18: after the webhook fan-out over t1..tn the response holds n results in
\* the order of the list, total_targets = n, and targets_sent is the number
\* of results with success = true, which is the number of targets for which
\* a send attempt succeeded.
C18_SummaryCountsMatch ==
    (request.endpoint = "github-webhook" /\ FanOutAnswered) =>
        LET n == Len(targets)
            res == response.body.results
        IN /\ Len(res) = n
           /\ response.body.total_targets = n
           /\ \A j \in 1..n :
                 /\ res[j].target = IF Resolved(j) THEN WebhookDisplayTarget(targets[j])
                                     ELSE targets[j]
                 /\ res[j].success <=> Delivered(j)
           /\ response.body.targets_sent = Cardinality({j \in 1..n : res[j].success})
           /\ response.body.targets_sent = Cardinality({j \in 1..n : Delivered(j)})

\* a fan-out over two targets delivered to the second one only
C18_Witness ==
    /\ request.endpoint = "github-webhook"
    /\ FanOutAnswered
    /\ Len(targets) = 2
    /\ ~Delivered(1)
    /\ Delivered(2)
    /\ response.body.targets_sent = 1

\* C19: in the bulk and the webhook fan-out every target of the list is
\* processed, whatever happened to the targets before it: a target that was
\* resolved gets at least 1 and at most 2 send attempts, all to its JID, and
\* a target that was not resolved gets none.
C19_TargetsIndependent ==
    (request.endpoint \in {"bulk", "github-webhook"} /\ wpc \in {"loop", "done"}
        /\ targets # <<>>) =>
        /\ FanOutAnswered => tidx = Len(targets) + 1
        /\ \A t \in 1..Len(targets) :
              IF t < tidx
                THEN \E j \in 1..Len(effects) :
                       /\ IsResolve(effects[j]) /\ effects[j].what = t
                       /\ effects[j].to \in createTargetJID(targets[t])
                       /\ \A j2 \in 1..Len(effects) :
                             (IsResolve(effects[j2]) /\ effects[j2].what = t) => j2 = j
                       /\ IF effects[j].ok
                            THEN /\ Len(AttemptsFor(t)) \in 1..2
                                 /\ \A a \in 1..Len(AttemptsFor(t)) :
                                       AttemptsFor(t)[a].to = effects[j].to
                            ELSE AttemptsFor(t) = <<>>
                ELSE AttemptsFor(t) = <<>>

\* the bulk send went on to its second target after the first was not
\* resolved, and to its third after the second exhausted its attempts
C19_Witness ==
    /\ request.endpoint = "bulk"
    /\ FanOutAnswered
    /\ Len(targets) = 2
    /\ Len(AttemptsFor(1)) = 2
    /\ ~Delivered(1)
    /\ Delivered(2)

\* the JID target number idx was resolved to, its kind, and the raw target
ResolvedJID(idx) ==
    effects[CHOOSE j \in 1..Len(effects) :
                IsResolve(effects[j]) /\ effects[j].what = idx].to
KindOf(j) == IF j.Server = GroupServer THEN "group" ELSE "individual"
RawTarget(idx) ==
    IF request.endpoint = "send-message" THEN request.target ELSE targets[idx]

\* C26 as stated: in every per-target result of /send-message, the bulk
\* endpoint and the webhook fan-out, the reported target_type is "group"
\* exactly when the raw target was resolved to a group target and
\* "individual" exactly when it was resolved to an individual target, also
\* for raw targets with white space around a group identifier.
C26_TargetTypeIsResolvedKind ==
    /\ \A n \in 1..Len(results) :
          "target_type" \in DOMAIN results[n] =>
              results[n].target_type = KindOf(ResolvedJID(n))
    /\ (request.endpoint = "send-message" /\ "target_type" \in DOMAIN response.body) =>
          response.body.target_type = KindOf(ResolvedJID(1))

\* the raw target holds no digit and is not a group identifier
Digitless(raw) == StripNonDigits(raw) = <<>> /\ ~isGroupJID(TrimSpace(raw))

\* C30 as stated: no send attempt is ever made for a raw target that holds no
\* digit and is not a group identifier (the empty string, white space, an
\* empty item of the configured list): such a target is skipped or reported
\* as a failure, never resolved to the bare country code "62" and sent to.
C30_NoSendForDigitlessTarget ==
    \A j \in 1..Len(effects) :
        /\ IsSend(effects[j]) => ~Digitless(RawTarget(effects[j].what))
        /\ (IsResolve(effects[j]) /\ Digitless(RawTarget(effects[j].what))) =>
              effects[j].to.User # <<"6", "2">>

(***************************************************************************)
(* Specifications, one per component                                       *)
(***************************************************************************)

\* the components of the hosting layer, left alone
RestIdle == TransportIdle /\ CmdIdle /\ HttpIdle /\ FormatIdle

RetryInit == RetryStart /\ MemIdle /\ FlowIdle /\ EventIdle /\ TargetIdle /\ RestIdle
RetryNext == SendAttempt \/ Backoff \/ ReturnErr
SpecRetry == RetryInit /\ [][RetryNext]_vars

MemInit == MemStart /\ RetryIdle /\ FlowIdle /\ EventIdle /\ TargetIdle /\ RestIdle
MemNext == AppendCall \/ GetHistoryCall \/ Tick
SpecMem == MemInit /\ [][MemNext]_vars

HistoryInit == MemStart /\ RetryIdle /\ FlowIdle /\ EventIdle /\ TargetIdle /\ RestIdle
HistoryNext == AppendCall \/ GetHistoryCall \/ MutateGot
SpecHistory == HistoryInit /\ [][HistoryNext]_vars

PersistInit == MemStart /\ FlowIdle /\ RetryIdle /\ EventIdle /\ TargetIdle /\ RestIdle
PersistNext ==
    \E f \in Flows :
        \/ SaveAppend(f)
        \/ SaveRLock(f)
        \/ SaveMarshal(f)
        \/ SaveWrite(f)
        \/ SaveRUnlock(f)
SpecPersist == PersistInit /\ [][PersistNext]_vars

TurnInit == MemStart /\ FlowIdle /\ RetryIdle /\ EventIdle /\ TargetIdle /\ RestIdle
TurnNext ==
    \E f \in Flows :
        \/ TurnAppend(f)
        \/ SaveRLock(f)
        \/ SaveMarshal(f)
        \/ SaveWrite(f)
        \/ SaveRUnlock(f)
SpecTurns == TurnInit /\ [][TurnNext]_vars

FlowInit == MemStart /\ FlowIdle /\ RetryIdle /\ EventIdle /\ TargetIdle /\ RestIdle
FlowNext ==
    \/ \E f \in Flows : AppendEnter(f)
    \/ \E f \in Flows : AppendLock(f)
    \/ \E f \in Flows : AppendLoad(f)
    \/ \E f \in Flows : AppendStore(f)
    \/ \E f \in Flows : AppendTrim(f)
    \/ \E f \in Flows : AppendUnlock(f)
    \/ Tick
SpecFlows == FlowInit /\ [][FlowNext]_vars

DispatchInit == EventStart /\ RetryIdle /\ MemIdle /\ FlowIdle /\ TargetIdle /\ RestIdle
DispatchNext == EventHandler
SpecDispatch == DispatchInit /\ [][DispatchNext]_vars

CommandInit ==
    /\ CmdStart /\ TransportStart /\ MemStart
    /\ RetryIdle /\ FlowIdle /\ TargetIdle /\ HttpIdle /\ FormatIdle
CommandNext ==
    \/ EventHandler
    \/ ReplyCommand
    \/ handleEchoCommand
    \/ AskCommand
    \/ AskHistory
    \/ AskGenerated
    \/ AskStoreUser
    \/ AskStoreAssistant
    \/ AskAnswer
    \/ IDXCommand
    \/ IDXFetched
    \/ ImgCommand
    \/ ImgGenerated
    \/ ImgDeliver
SpecCommands == CommandInit /\ [][CommandNext]_vars

FormatInit ==
    /\ FormatStart /\ RetryIdle /\ MemIdle /\ FlowIdle /\ EventIdle /\ TargetIdle
    /\ TransportIdle /\ CmdIdle /\ HttpIdle
FormatNext == FormatMessage
SpecFormat == FormatInit /\ [][FormatNext]_vars

HttpInit ==
    /\ HttpStart /\ TransportStart
    /\ RetryIdle /\ MemIdle /\ FlowIdle /\ EventIdle /\ TargetIdle /\ CmdIdle /\ FormatIdle
HttpNext ==
    \/ handleSendMessage
    \/ BulkReceive
    \/ BulkIteration
    \/ BulkRespond
    \/ WebhookReceive
    \/ WebhookFormat
    \/ WebhookIteration
    \/ WebhookRespond
SpecHttp == HttpInit /\ [][HttpNext]_vars

TargetInit == TargetStart /\ RetryIdle /\ MemIdle /\ FlowIdle /\ EventIdle /\ RestIdle
TargetNext == ResolveTarget
SpecTarget == TargetInit /\ [][TargetNext]_vars

====
